---- MODULE Spec2Model ----
(***************************************************************************)
(* A model of the webmidi Output port: the raw send primitive, the control *)
(* change encoder and the registered / non-registered parameter protocol   *)
(* (select, act, deselect), together with the host transport they hand     *)
(* their byte sequences to.                                                *)
(*                                                                         *)
(* JavaScript values are modelled as tagged records so that the coercions  *)
(* the code relies on (Math.floor, parseFloat, "x || 0", relational        *)
(* comparison with NaN) are computed and not assumed.                      *)
(***************************************************************************)
EXTENDS Integers, Sequences, FiniteSets, TLC

VARIABLES time, sysex, pc, call, sent, handed, outcome

\* the Output object and its transport: the fields _midiOutput and channels,
\* the channels destroy() was called on, the listeners registered on the Output,
\* the transport's onstatechange handler, and the calls of the asynchronous
\* methods (open, close, destroy) made so far, each with its promise
VARIABLES midiOutput, channels, destroyed, listeners, onstatechange, tasks

\* the last statechange notification of the host: the connection and state of
\* the port it told of, the asynchronous call that caused it (0 when the device
\* did), whether the handler of the Output was on the transport, the events the
\* handler emitted and the listeners they were delivered to
VARIABLES notified

\* an input channel: the messages the host delivered to it and the events it
\* dispatched to its listeners, both in order
VARIABLES received, events

\* the input channel object: its number and the input that owns it (null once
\* destroyed), its listeners, the last operation called on it and the
\* listeners that operation took away
VARIABLES inputChannel

sending == <<time, sysex, pc, call, sent, handed, outcome>>

port == <<midiOutput, channels, destroyed, listeners, onstatechange, tasks,
         notified>>

inbound == <<received, events, inputChannel>>

vars == <<sending, port, inbound>>

(***************************************************************************)
(* Bounds of the model.                                                    *)
(***************************************************************************)
\* largest value of the clock WebMidi.time
MaxTime == 2
\* longest array of channels passed as the channel argument
MaxTargets == 2
\* longest payload of a system exclusive message
MaxPayload == 3
\* the bends tried are the multiples of 1 / BendSteps
BendSteps == 8
\* calls of open, close and destroy made on one Output
MaxCalls == 2
\* listeners registered on the Output at one time
MaxListeners == 1
\* messages the host delivers to the input channel
MaxInbound == 2

(***************************************************************************)
(* JavaScript values.  t is the type tag, n the value of a number, s the   *)
(* text of an identifier string, c the characters of any other string and  *)
(* a the elements of an array.                                             *)
(***************************************************************************)
Num(n) == [t |-> "num", n |-> n, s |-> "", c |-> <<>>, a |-> <<>>]
Str(s) == [t |-> "str", n |-> 0, s |-> s, c |-> <<>>, a |-> <<>>]
Chars(c) == [t |-> "str", n |-> 0, s |-> "", c |-> c, a |-> <<>>]
Arr(a) == [t |-> "arr", n |-> 0, s |-> "", c |-> <<>>, a |-> a]
Undefined == [t |-> "undefined", n |-> 0, s |-> "", c |-> <<>>, a |-> <<>>]
Null == [t |-> "null", n |-> 0, s |-> "", c |-> <<>>, a |-> <<>>]
NaN == [t |-> "nan", n |-> 0, s |-> "", c |-> <<>>, a |-> <<>>]
Infinity == [t |-> "inf", n |-> 1, s |-> "", c |-> <<>>, a |-> <<>>]
NegInfinity == [t |-> "inf", n |-> -1, s |-> "", c |-> <<>>, a |-> <<>>]
False == [t |-> "bool", n |-> 0, s |-> "", c |-> <<>>, a |-> <<>>]
Obj == [t |-> "object", n |-> 0, s |-> "", c |-> <<>>, a |-> <<>>]

Digits == {"0", "1", "2", "3", "4", "5", "6", "7", "8", "9"}

DigitValue(d) ==
    CASE d = "0" -> 0 [] d = "1" -> 1 [] d = "2" -> 2 [] d = "3" -> 3
      [] d = "4" -> 4 [] d = "5" -> 5 [] d = "6" -> 6 [] d = "7" -> 7
      [] d = "8" -> 8 [] d = "9" -> 9

\* the length of the longest prefix of c made of decimal digits
RECURSIVE DigitPrefix(_)
DigitPrefix(c) ==
    IF c = <<>> \/ Head(c) \notin Digits THEN 0 ELSE 1 + DigitPrefix(Tail(c))

RECURSIVE DigitsValue(_, _)
DigitsValue(c, k) ==
    IF k = 0 THEN 0 ELSE 10 * DigitsValue(c, k - 1) + DigitValue(c[k])

\* parseInt / parseFloat on a string: optional sign, then the longest run of
\* digits; anything after it is ignored; no digit at all gives NaN
ParseChars(c) ==
    LET parse(negative, body, k) ==
            IF k = 0 THEN NaN
            ELSE IF negative THEN Num(0 - DigitsValue(body, k))
            ELSE Num(DigitsValue(body, k))
        unsigned(negative, body) == parse(negative, body, DigitPrefix(body))
    IN  IF c # <<>> /\ Head(c) \in {"+", "-"}
        THEN unsigned(Head(c) = "-", Tail(c)) ELSE unsigned(FALSE, c)

\* Number(string): the whole string must be a number; "" is 0
NumberOfChars(c) ==
    LET whole(x, digits) == IF digits THEN x ELSE NaN
    IN  IF c = <<>> THEN Num(0)
        ELSE whole(ParseChars(c),
                   \A i \in 2..Len(c) : c[i] \in Digits)

\* ToNumber: an array converts through its string form ("" when empty, the
\* element's own string when it has one element)
ToNumber(v) ==
    LET prim(x) ==
            CASE x.t = "num" -> x
              [] x.t = "inf" -> x
              [] x.t = "null" -> Num(0)
              [] x.t = "bool" -> Num(x.n)
              [] x.t = "str" -> (IF x.s # "" THEN NaN ELSE NumberOfChars(x.c))
              [] OTHER -> NaN
    IN  IF v.t # "arr" THEN prim(v)
        ELSE IF Len(v.a) = 0 THEN Num(0)
        ELSE IF Len(v.a) > 1 THEN NaN
        ELSE IF v.a[1].t \in {"undefined", "null"} THEN Num(0)
        ELSE prim(v.a[1])

\* Math.floor (the numbers of the model are integers)
MathFloor(v) == ToNumber(v)

\* parseFloat / parseInt: the argument is converted to a string first (an
\* array to the string of its first element)
parseFloat(v) ==
    LET prim(x) ==
            CASE x.t = "num" -> x
              [] x.t = "inf" -> x
              [] x.t = "str" -> (IF x.s # "" THEN NaN ELSE ParseChars(x.c))
              [] OTHER -> NaN
    IN  IF v.t # "arr" THEN prim(v)
        ELSE IF Len(v.a) = 0 THEN NaN
        ELSE prim(v.a[1])

\* parseInt: as parseFloat, but the text "Infinity" has no digit
parseInt(v) == IF v.t = "inf" THEN NaN ELSE parseFloat(v)

\* truthiness of a value
Truthy(v) ==
    CASE v.t = "num" -> v.n # 0
      [] v.t = "inf" -> TRUE
      [] v.t = "str" -> v.s # "" \/ v.c # <<>>
      [] v.t = "arr" -> TRUE
      [] v.t = "object" -> TRUE
      [] v.t = "bool" -> v.n # 0
      [] OTHER -> FALSE

\* a || b
OrElse(v, w) == IF Truthy(v) THEN v ELSE w

\* x >= k, x <= k and x > k for a number x (NaN included) and an integer k:
\* every comparison with NaN is false
GreaterEq(x, k) == (x.t = "num" /\ x.n >= k) \/ (x.t = "inf" /\ x.n = 1)

LessEq(x, k) == (x.t = "num" /\ x.n <= k) \/ (x.t = "inf" /\ x.n = -1)

Greater(x, k) == (x.t = "num" /\ x.n > k) \/ (x.t = "inf" /\ x.n = 1)

\* !(x >= lo && x <= hi)
OutOfRange(x, lo, hi) == ~(GreaterEq(x, lo) /\ LessEq(x, hi))

\* v[i] with i counted from 0: undefined past the end of an array or on a
\* number; a character of a string (an identifier string stands for any of its
\* letters, none of which is numeric)
Index(v, i) ==
    CASE v.t = "arr" -> (IF i < Len(v.a) THEN v.a[i + 1] ELSE Undefined)
      [] v.t = "str" -> (IF v.s # "" THEN v
                         ELSE IF i < Len(v.c) THEN Chars(<<v.c[i + 1]>>)
                         ELSE Undefined)
      [] OTHER -> Undefined

IsArray(v) == v.t = "arr"

\* [].concat(v)
ConcatToArray(v) == IF IsArray(v) THEN v.a ELSE <<v>>

(***************************************************************************)
(* Message tables.                                                         *)
(***************************************************************************)
MIDI_CHANNEL_VOICE_MESSAGES ==
    [noteoff |-> 8, noteon |-> 9, keyaftertouch |-> 10, controlchange |-> 11,
     programchange |-> 12, channelaftertouch |-> 13, pitchbend |-> 14,
     channelmode |-> 15]

MIDI_SYSTEM_MESSAGES ==
    [sysex |-> 240, timecode |-> 241, songposition |-> 242, songselect |-> 243,
     tunerequest |-> 246, sysexend |-> 247, clock |-> 248, start |-> 250,
     continue |-> 251, stop |-> 252, activesensing |-> 254, reset |-> 255]

MIDI_CHANNEL_MODE_MESSAGES ==
    [allsoundoff |-> 120, resetallcontrollers |-> 121, localcontrol |-> 122,
     allnotesoff |-> 123, omnimodeoff |-> 124, omnimodeon |-> 125,
     monomodeon |-> 126, polymodeon |-> 127]

MIDI_CONTROL_CHANGE_MESSAGES ==
    [bankselectcoarse |-> 0, modulationwheelcoarse |-> 1,
     breathcontrollercoarse |-> 2, footcontrollercoarse |-> 4,
     portamentotimecoarse |-> 5, dataentrycoarse |-> 6, volumecoarse |-> 7,
     balancecoarse |-> 8, pancoarse |-> 10, expressioncoarse |-> 11,
     effectcontrol1coarse |-> 12, effectcontrol2coarse |-> 13,
     generalpurposeslider1 |-> 16, generalpurposeslider2 |-> 17,
     generalpurposeslider3 |-> 18, generalpurposeslider4 |-> 19,
     bankselectfine |-> 32, modulationwheelfine |-> 33,
     breathcontrollerfine |-> 34, footcontrollerfine |-> 36,
     portamentotimefine |-> 37, dataentryfine |-> 38, volumefine |-> 39,
     balancefine |-> 40, panfine |-> 42, expressionfine |-> 43,
     effectcontrol1fine |-> 44, effectcontrol2fine |-> 45, holdpedal |-> 64,
     portamento |-> 65, sustenutopedal |-> 66, softpedal |-> 67,
     legatopedal |-> 68, hold2pedal |-> 69, soundvariation |-> 70,
     resonance |-> 71, soundreleasetime |-> 72, soundattacktime |-> 73,
     brightness |-> 74, soundcontrol6 |-> 75, soundcontrol7 |-> 76,
     soundcontrol8 |-> 77, soundcontrol9 |-> 78, soundcontrol10 |-> 79,
     generalpurposebutton1 |-> 80, generalpurposebutton2 |-> 81,
     generalpurposebutton3 |-> 82, generalpurposebutton4 |-> 83,
     reverblevel |-> 91, tremololevel |-> 92, choruslevel |-> 93,
     celestelevel |-> 94, phaserlevel |-> 95, databuttonincrement |-> 96,
     databuttondecrement |-> 97, nonregisteredparametercoarse |-> 98,
     nonregisteredparameterfine |-> 99, registeredparametercoarse |-> 100,
     registeredparameterfine |-> 101]

MIDI_REGISTERED_PARAMETER ==
    [pitchbendrange |-> <<0, 0>>, channelfinetuning |-> <<0, 1>>,
     channelcoarsetuning |-> <<0, 2>>, tuningprogram |-> <<0, 3>>,
     tuningbank |-> <<0, 4>>, modulationrange |-> <<0, 5>>,
     azimuthangle |-> <<61, 0>>, elevationangle |-> <<61, 1>>,
     gain |-> <<61, 2>>, distanceratio |-> <<61, 3>>,
     maximumdistance |-> <<61, 4>>, maximumdistancegain |-> <<61, 5>>,
     referencedistanceratio |-> <<61, 6>>, panspreadangle |-> <<61, 7>>,
     rollangle |-> <<61, 8>>]

\* table[key]: the entry, or undefined when the key names no entry (a key that
\* is not a string is converted to a string that names none)
HasEntry(table, key) == key.t = "str" /\ key.s \in DOMAIN table

ControlChangeNumber(key) ==
    IF HasEntry(MIDI_CONTROL_CHANGE_MESSAGES, key)
    THEN Num(MIDI_CONTROL_CHANGE_MESSAGES[key.s]) ELSE Undefined

RegisteredParameter(key) ==
    IF HasEntry(MIDI_REGISTERED_PARAMETER, key)
    THEN Arr(<<Num(MIDI_REGISTERED_PARAMETER[key.s][1]),
               Num(MIDI_REGISTERED_PARAMETER[key.s][2])>>)
    ELSE Undefined

\* the number of MIDI channels of a port
NumChannels == 16

RECURSIVE ChannelNumbers(_)
ChannelNumbers(a) ==
    LET valid(ch) == IF ch.t = "num" /\ ch.n >= 1 /\ ch.n <= NumChannels
                     THEN <<ch.n>> ELSE <<>>
    IN  IF a = <<>> THEN <<>>
        ELSE valid(parseFloat(Head(a))) \o ChannelNumbers(Tail(a))

\* WebMidi.sanitizeChannels: the valid channel numbers of the argument, in
\* its order; an omitted argument and "all" stand for every channel
sanitizeChannels(channel) ==
    IF channel.t = "undefined" \/ (channel.t = "str" /\ channel.s = "all")
    THEN [i \in 1..NumChannels |-> i]
    ELSE ChannelNumbers(ConcatToArray(channel))

(***************************************************************************)
(* Timestamp resolution.                                                   *)
(***************************************************************************)
\* a variant of _convertToTimestamp that takes a delay for an absolute time
convertToTimestampAbsolute(t, now) ==
    LET convert(parsed) ==
            IF t.t = "str" /\ t.c # <<>> /\ Head(t.c) = "+"
            THEN (IF Truthy(parsed) /\ Greater(parsed, 0)
                  THEN parsed ELSE Undefined)
            ELSE (IF Greater(parsed, now) THEN parsed ELSE Undefined)
    IN  OrElse(convert(parseFloat(t)), False)

\* a variant of _convertToTimestamp that takes every numeric delay, zero
\* included
convertToTimestampAnyDelay(t, now) ==
    LET convert(parsed) ==
            IF t.t = "str" /\ t.c # <<>> /\ Head(t.c) = "+"
            THEN (IF parsed.t = "num"
                  THEN Num(now + parsed.n) ELSE Undefined)
            ELSE (IF Greater(parsed, now) THEN parsed ELSE Undefined)
    IN  OrElse(convert(parseFloat(t)), False)

\* Output._convertToTimestamp, with now the value of WebMidi.time
convertToTimestamp(t, now) ==
    LET convert(parsed) ==
            IF t.t = "str" /\ t.c # <<>> /\ Head(t.c) = "+"
            THEN (IF Truthy(parsed) /\ Greater(parsed, 0)
                  THEN Num(now + parsed.n) ELSE Undefined)
            ELSE (IF Greater(parsed, now) THEN parsed ELSE Undefined)
    IN  OrElse(convert(parseFloat(t)), False)

(***************************************************************************)
(* The host transport (MIDIOutput).  It takes a sequence of numbers and    *)
(* throws a TypeError when the sequence is not a run of complete MIDI      *)
(* messages, and an InvalidAccessError (a DOMException) when it holds a    *)
(* system exclusive message and the session was enabled without the sysex  *)
(* option.                                                                 *)
(***************************************************************************)
ReservedStatus == {244, 245, 249, 253}

\* the number of data bytes a status byte announces
DataLength(status) ==
    IF status < 192 THEN 2
    ELSE IF status < 224 THEN 1
    ELSE IF status < 240 THEN 2
    ELSE IF status \in {241, 243} THEN 1
    ELSE IF status = 242 THEN 2
    ELSE 0

\* the position of the first byte above 127 at or after position i, or 0
RECURSIVE NextStatus(_, _)
NextStatus(m, i) ==
    IF i > Len(m) THEN 0
    ELSE IF m[i] >= 128 THEN i
    ELSE NextStatus(m, i + 1)

RECURSIVE WellFormed(_)
WellFormed(m) ==
    IF m = <<>> THEN TRUE
    ELSE IF m[1] < 128 THEN FALSE                   \* running status
    ELSE IF m[1] \in ReservedStatus THEN FALSE      \* reserved status
    ELSE IF m[1] = 247 THEN FALSE                   \* unexpected end of sysex
    ELSE IF m[1] = 240
         THEN /\ NextStatus(m, 2) # 0
              /\ m[NextStatus(m, 2)] = 247
              /\ WellFormed(SubSeq(m, NextStatus(m, 2) + 1, Len(m)))
    ELSE /\ Len(m) >= 1 + DataLength(m[1])          \* message is incomplete
         /\ \A i \in 2..(1 + DataLength(m[1])) : m[i] < 128  \* unexpected status
         /\ WellFormed(SubSeq(m, DataLength(m[1]) + 2, Len(m)))

\* the conversion of the bytes to the host's integers, for a host that
\* converts every value (what is not a finite number becomes 0)
HostNumbers(bytes) ==
    LET finite(x) == IF x.t = "num" THEN x.n ELSE 0
    IN  [i \in 1..Len(bytes) |-> finite(ToNumber(bytes[i]))]

\* does MIDIOutput.send return normally on the bytes it is given, numbers
\* being their conversion?  A host is free to refuse a value that is not a
\* number (strict) or to convert it.
HostAccepts(bytes, numbers, strict) ==
    /\ strict => \A i \in 1..Len(bytes) : bytes[i].t = "num"
    /\ \A i \in 1..Len(numbers) : numbers[i] \in 0..255
    /\ WellFormed(numbers)

(***************************************************************************)
(* The outcome of running a piece of code: the messages the transport took *)
(* (msgs), the number of times its send was invoked (handed) and how the   *)
(* code ended: "ok", or the class of the error thrown.                     *)
(***************************************************************************)
Done == [msgs |-> <<>>, handed |-> 0, out |-> "ok"]

Throw(e) == [msgs |-> <<>>, handed |-> 0, out |-> e]

\* the outcome b of what follows, appended to an outcome a that did not throw
Join(a, b) ==
    [msgs |-> a.msgs \o b.msgs, handed |-> a.handed + b.handed, out |-> b.out]

\* r1 ; r2 : r2 runs only when r1 did not throw
Then(r1, r2) == IF r1.out # "ok" THEN r1 ELSE Join(r1, r2)

\* chs.forEach(function () { body }) for a body that does not use the element:
\* r, the outcome of the body, n times over, up to the first throw
RECURSIVE Repeat(_, _)
Repeat(n, r) == IF n = 0 THEN Done ELSE Then(r, Repeat(n - 1, r))

(***************************************************************************)
(* Output.send                                                             *)
(***************************************************************************)
\* a variant of send that swallows the error of the host
sendIgnoringHost(status, data, timestamp, strict) ==
    [msgs |-> <<>>, handed |-> 1, out |-> "ok"]

send(status, data, timestamp, strict) ==
    LET hand(bytes, numbers, ts) ==
            IF ~HostAccepts(bytes, numbers, strict)
            THEN [msgs |-> <<>>, handed |-> 1, out |-> "TypeError"]
            ELSE IF ~sysex /\ \E i \in 1..Len(numbers) :
                                 numbers[i] = MIDI_SYSTEM_MESSAGES.sysex
            THEN [msgs |-> <<>>, handed |-> 1, out |-> "InvalidAccessError"]
            ELSE [msgs |-> <<[bytes |-> numbers, ts |-> ts.n]>>,
                  handed |-> 1, out |-> "ok"]
        concat(bytes) ==
            hand(bytes, HostNumbers(bytes), OrElse(parseFloat(timestamp), Num(0)))
    IN  concat(<<status>> \o (IF data.t = "undefined" THEN <<>>
                              ELSE ConcatToArray(data)))

\* send as the encoders below call it: every byte they pass is a number, which
\* a strict and a converting host take alike
sendBytes(status, data, timestamp) == send(Num(status), Arr(data), timestamp, TRUE)

\* chs.forEach(ch => this.send((type << 4) + (ch - 1), data, timestamp))
RECURSIVE sendEach(_, _, _, _)
sendEach(type, chs, data, timestamp) ==
    IF chs = <<>> THEN Done
    ELSE Then(sendBytes(type * 16 + (Head(chs) - 1), data, timestamp),
              sendEach(type, Tail(chs), data, timestamp))

(***************************************************************************)
(* Output.sendChannelMode(command, value, channel, {time: t})              *)
(***************************************************************************)
ChannelModeNumber(key) ==
    IF HasEntry(MIDI_CHANNEL_MODE_MESSAGES, key)
    THEN Num(MIDI_CHANNEL_MODE_MESSAGES[key.s]) ELSE Undefined

sendChannelMode(command, value, channel, t, now) ==
    LET encode(cmd, val) ==
            IF command.t = "str" /\ cmd.t = "undefined"
            THEN Throw("TypeError")
            ELSE IF command.t # "str" /\ OutOfRange(cmd, 120, 127)
            THEN Throw("RangeError")
            ELSE IF OutOfRange(val, 0, 127) THEN Throw("RangeError")
            ELSE sendEach(MIDI_CHANNEL_VOICE_MESSAGES.channelmode,
                          sanitizeChannels(channel), <<cmd, val>>,
                          convertToTimestamp(t, now))
    IN  encode(IF command.t = "str" THEN ChannelModeNumber(command)
               ELSE MathFloor(command),
               OrElse(MathFloor(value), Num(0)))

(***************************************************************************)
(* Output.sendControlChange(controller, value, channel, {time: t})         *)
(***************************************************************************)
\* a variant of sendControlChange that does not check the range of the value
sendControlChangeUnchecked(controller, value, channel, t, now) ==
    LET encode(ctrl, val) ==
            IF controller.t = "str" /\ ctrl.t = "undefined"
            THEN Throw("TypeError")
            ELSE IF controller.t # "str" /\ OutOfRange(ctrl, 0, 119)
            THEN Throw("RangeError")
            ELSE sendEach(MIDI_CHANNEL_VOICE_MESSAGES.controlchange,
                          sanitizeChannels(channel), <<ctrl, val>>,
                          convertToTimestamp(t, now))
    IN  encode(IF controller.t = "str" THEN ControlChangeNumber(controller)
               ELSE MathFloor(controller),
               OrElse(MathFloor(value), Num(0)))

\* a variant of sendControlChange that takes every controller number of a
\* data byte, the channel mode numbers 120 to 127 included
sendControlChangeAnyController(controller, value, channel, t, now) ==
    LET encode(ctrl, val) ==
            IF controller.t = "str" /\ ctrl.t = "undefined"
            THEN Throw("TypeError")
            ELSE IF controller.t # "str" /\ OutOfRange(ctrl, 0, 127)
            THEN Throw("RangeError")
            ELSE IF OutOfRange(val, 0, 127) THEN Throw("RangeError")
            ELSE sendEach(MIDI_CHANNEL_VOICE_MESSAGES.controlchange,
                          sanitizeChannels(channel), <<ctrl, val>>,
                          convertToTimestamp(t, now))
    IN  encode(IF controller.t = "str" THEN ControlChangeNumber(controller)
               ELSE MathFloor(controller),
               OrElse(MathFloor(value), Num(0)))

sendControlChange(controller, value, channel, t, now) ==
    LET encode(ctrl, val) ==
            IF controller.t = "str" /\ ctrl.t = "undefined"
            THEN Throw("TypeError")
            ELSE IF controller.t # "str" /\ OutOfRange(ctrl, 0, 119)
            THEN Throw("RangeError")
            ELSE IF OutOfRange(val, 0, 127) THEN Throw("RangeError")
            ELSE sendEach(MIDI_CHANNEL_VOICE_MESSAGES.controlchange,
                          sanitizeChannels(channel), <<ctrl, val>>,
                          convertToTimestamp(t, now))
    IN  encode(IF controller.t = "str" THEN ControlChangeNumber(controller)
               ELSE MathFloor(controller),
               OrElse(MathFloor(value), Num(0)))

(***************************************************************************)
(* Output.sendPitchBend(bend, channel, {time: t}).  A bend that is not a   *)
(* whole number is Frac(k), the number k / BendSteps.                      *)
(***************************************************************************)
Frac(k) == [t |-> "frac", n |-> k, s |-> "", c |-> <<>>, a |-> <<>>]

\* Math.round(p / q) for q > 0: the nearest integer, a half rounded up
MathRound(p, q) == (2 * p + q) \div (2 * q)

\* a variant of the split that puts the most significant bits first
pitchBendBytesMsbFirst(nLevel) ==
    <<Num((nLevel \div 128) % 128), Num(nLevel % 128)>>

\* the data bytes of a pitch bend of level nLevel: lsb = nLevel & 0x7F first,
\* then msb = (nLevel >> 7) & 0x7F
pitchBendBytes(nLevel) ==
    <<Num(nLevel % 128), Num((nLevel \div 128) % 128)>>

\* a variant of sendPitchBend that truncates the level
sendPitchBendTruncating(bend, channel, t, now) ==
    LET bytes(nLevel) ==
            sendEach(MIDI_CHANNEL_VOICE_MESSAGES.pitchbend,
                     sanitizeChannels(channel),
                     pitchBendBytes(nLevel),
                     convertToTimestamp(t, now))
        encode(k) ==
            IF k < 0 - BendSteps \/ k > BendSteps THEN Throw("RangeError")
            ELSE bytes(((k + BendSteps) * 16383) \div (2 * BendSteps))
        number(x) ==
            IF x.t # "num" THEN Throw("RangeError") ELSE encode(x.n * BendSteps)
    IN  IF bend.t = "frac" THEN encode(bend.n) ELSE number(ToNumber(bend))

sendPitchBend(bend, channel, t, now) ==
    LET bytes(nLevel) ==
            sendEach(MIDI_CHANNEL_VOICE_MESSAGES.pitchbend,
                     sanitizeChannels(channel),
                     pitchBendBytes(nLevel),
                     convertToTimestamp(t, now))
        encode(k) ==
            IF k < 0 - BendSteps \/ k > BendSteps THEN Throw("RangeError")
            ELSE bytes(MathRound((k + BendSteps) * 16383, 2 * BendSteps))
        number(x) ==
            IF x.t # "num" THEN Throw("RangeError") ELSE encode(x.n * BendSteps)
    IN  IF bend.t = "frac" THEN encode(bend.n) ELSE number(ToNumber(bend))

(***************************************************************************)
(* Notes.                                                                  *)
(***************************************************************************)
\* the semitone of each note letter within its octave
NoteSemitones == [C |-> 0, D |-> 2, E |-> 4, F |-> 5, G |-> 7, A |-> 9, B |-> 11]

\* WebMidi.noteNameToNumber: a letter, at most one accidental and an octave
\* from -1 to 9, C-1 being 0; NaN stands for the error thrown on any other text
noteNameToNumber(c) ==
    LET InRange(x) == IF x.t = "num" /\ x.n \in 0..127 THEN x ELSE NaN
        place(semitone, octave) ==
            IF octave.t # "num" \/ octave.n \notin (0 - 1)..9 THEN NaN
            ELSE InRange(Num((octave.n + 1) * 12 + semitone))
        octaveOf(semitone, rest) ==
            IF rest = <<>> THEN NaN ELSE place(semitone, NumberOfChars(rest))
        accidental(semitone, rest) ==
            IF rest # <<>> /\ Head(rest) = "#" THEN octaveOf(semitone + 1, Tail(rest))
            ELSE IF rest # <<>> /\ Head(rest) = "b"
            THEN octaveOf(semitone - 1, Tail(rest))
            ELSE octaveOf(semitone, rest)
    IN  IF c = <<>> \/ Head(c) \notin DOMAIN NoteSemitones THEN NaN
        ELSE accidental(NoteSemitones[Head(c)], Tail(c))

\* WebMidi.guessNoteNumber: a number from 0 to 127 as it is, a note name by
\* its number; NaN stands for the error thrown on anything else
guessNoteNumber(input) ==
    IF input.t = "num" THEN (IF input.n \in 0..127 THEN input ELSE NaN)
    ELSE IF input.t = "str" /\ input.s = "" THEN noteNameToNumber(input.c)
    ELSE NaN

\* Output._convertToNoteArray: the number of every note of the argument
convertToNoteArray(note) ==
    LET items(a) == [i \in 1..Len(a) |-> guessNoteNumber(a[i])]
    IN  items(ConcatToArray(note))

\* the options of playNote that are not the time
Options(duration, velocity, release, rawVelocity) ==
    [t |-> "object", duration |-> duration, velocity |-> velocity,
     release |-> release, rawVelocity |-> rawVelocity]

\* the velocity byte of a velocity option: the option when it is in range (0
\* to 1 times 127, or 0 to 127 as it is when raw), 64 otherwise
velocityLevel(v, raw) ==
    LET steps(k) ==
            IF raw THEN (IF k >= 0 /\ k <= 127 * BendSteps
                         THEN MathRound(k, BendSteps) ELSE 64)
            ELSE (IF k >= 0 /\ k <= BendSteps
                  THEN MathRound(k * 127, BendSteps) ELSE 64)
        number(x) == IF x.t # "num" THEN 64 ELSE steps(x.n * BendSteps)
    IN  IF v.t = "frac" THEN steps(v.n) ELSE number(ToNumber(v))

\* notes.forEach(item => channels.forEach(ch => this.send(...)))
RECURSIVE sendNotes(_, _, _, _, _)
sendNotes(type, notes, chs, level, timestamp) ==
    IF notes = <<>> THEN Done
    ELSE Then(sendEach(type, chs, <<Head(notes), Num(level)>>, timestamp),
              sendNotes(type, Tail(notes), chs, level, timestamp))

\* a variant of playNote that schedules the note off at the duration alone
playNoteOffAtDuration(note, channel, options, t, now) ==
    LET play(notes, chs, at, duration) ==
            Then(sendNotes(MIDI_CHANNEL_VOICE_MESSAGES.noteon, notes, chs,
                           velocityLevel(options.velocity, options.rawVelocity),
                           at),
                 IF duration.t # "num" THEN Done
                 ELSE sendNotes(MIDI_CHANNEL_VOICE_MESSAGES.noteoff, notes, chs,
                                velocityLevel(options.release, options.rawVelocity),
                                Num(IF duration.n <= 0 THEN 0 ELSE duration.n)))
        checked(notes) ==
            IF \E i \in 1..Len(notes) : notes[i].t = "nan" THEN Throw("Error")
            ELSE play(notes, sanitizeChannels(channel), convertToTimestamp(t, now),
                      ToNumber(options.duration))
    IN  checked(convertToNoteArray(note))

\* a variant of playNote that starts to send before every note is converted
playNoteConvertingLate(note, channel, options, t, now) ==
    LET play(notes, chs, at) ==
            Then(sendNotes(MIDI_CHANNEL_VOICE_MESSAGES.noteon, notes, chs,
                           velocityLevel(options.velocity, options.rawVelocity),
                           at),
                 Throw("Error"))
        valid(notes) == SelectSeq(notes, LAMBDA n : n.t # "nan")
        checked(notes) ==
            IF \E i \in 1..Len(notes) : notes[i].t = "nan"
            THEN play(valid(notes), sanitizeChannels(channel),
                      convertToTimestamp(t, now))
            ELSE Then(sendNotes(MIDI_CHANNEL_VOICE_MESSAGES.noteon, notes,
                                sanitizeChannels(channel),
                                velocityLevel(options.velocity, options.rawVelocity),
                                convertToTimestamp(t, now)),
                      Done)
    IN  checked(convertToNoteArray(note))

\* Output.playNote(note, channel, {duration, velocity, release, rawVelocity,
\* time: t}): a note on for every note on every channel, then, when the duration
\* is a number, a note off for each of them at the time of the note on (the
\* current time when that is immediate) plus the duration (0 when negative)
playNote(note, channel, options, t, now) ==
    LET play(notes, chs, at, duration) ==
            Then(sendNotes(MIDI_CHANNEL_VOICE_MESSAGES.noteon, notes, chs,
                           velocityLevel(options.velocity, options.rawVelocity),
                           at),
                 IF duration.t # "num" THEN Done
                 ELSE sendNotes(MIDI_CHANNEL_VOICE_MESSAGES.noteoff, notes, chs,
                                velocityLevel(options.release, options.rawVelocity),
                                Num(OrElse(at, Num(now)).n
                                      + (IF duration.n <= 0 THEN 0 ELSE duration.n))))
        checked(notes) ==
            IF \E i \in 1..Len(notes) : notes[i].t = "nan" THEN Throw("Error")
            ELSE play(notes, sanitizeChannels(channel), convertToTimestamp(t, now),
                      ToNumber(options.duration))
    IN  checked(convertToNoteArray(note))

(***************************************************************************)
(* Registered and non-registered parameters.                               *)
(***************************************************************************)
\* Output._selectRegisteredParameter
selectRegisteredParameter(parameter, channel, t, now) ==
    LET select(p0, p1) ==
            IF OutOfRange(p0, 0, 127) THEN Throw("RangeError")
            ELSE IF OutOfRange(p1, 0, 127) THEN Throw("RangeError")
            ELSE Repeat(Len(sanitizeChannels(channel)),
                        Then(sendControlChange(Num(101), p0, channel, t, now),
                             sendControlChange(Num(100), p1, channel, t, now)))
    IN  select(MathFloor(Index(parameter, 0)), MathFloor(Index(parameter, 1)))

\* Output._selectNonRegisteredParameter
selectNonRegisteredParameter(parameter, channel, t, now) ==
    LET select(p0, p1) ==
            IF OutOfRange(p0, 0, 127) THEN Throw("RangeError")
            ELSE IF OutOfRange(p1, 0, 127) THEN Throw("RangeError")
            ELSE Repeat(Len(sanitizeChannels(channel)),
                        Then(sendControlChange(Num(99), p0, channel, t, now),
                             sendControlChange(Num(98), p1, channel, t, now)))
    IN  select(MathFloor(Index(parameter, 0)), MathFloor(Index(parameter, 1)))

\* Output._setCurrentRegisteredParameter
setCurrentRegisteredParameter(data, channel, t, now) ==
    LET set(d0, d1, n) ==
            IF OutOfRange(d0, 0, 127) THEN Throw("RangeError")
            ELSE Then(Repeat(n, sendControlChange(Num(6), d0, channel, t, now)),
                      IF GreaterEq(d1, 0) /\ LessEq(d1, 127)
                      THEN Repeat(n, sendControlChange(Num(38), d1, channel, t, now))
                      ELSE Done)
    IN  set(MathFloor(Index(Arr(ConcatToArray(data)), 0)),
            MathFloor(Index(Arr(ConcatToArray(data)), 1)),
            Len(sanitizeChannels(channel)))

\* Output._deselectRegisteredParameter
deselectRegisteredParameter(channel, t, now) ==
    Repeat(Len(sanitizeChannels(channel)),
           Then(sendControlChange(Num(101), Num(127), channel, t, now),
                sendControlChange(Num(100), Num(127), channel, t, now)))

\* the parameter argument as setRegisteredParameter and the two steppers take
\* it: an array as it is, anything else looked up in the table of names
resolve(parameter) ==
    IF IsArray(parameter) THEN parameter ELSE RegisteredParameter(parameter)

\* Output.setRegisteredParameter
setRegisteredParameter(parameter, data, channel, t, now) ==
    IF ~Truthy(resolve(parameter)) THEN Throw("Error")
    ELSE Repeat(Len(sanitizeChannels(channel)),
                Then(selectRegisteredParameter(resolve(parameter), channel, t, now),
                     Then(setCurrentRegisteredParameter(data, channel, t, now),
                          deselectRegisteredParameter(channel, t, now))))

\* Output.setNonRegisteredParameter
setNonRegisteredParameter(parameter, data, channel, t, now) ==
    IF parameter.t \in {"undefined", "null"} THEN Throw("TypeError")
    ELSE IF OutOfRange(ToNumber(Index(parameter, 0)), 0, 127)
            \/ OutOfRange(ToNumber(Index(parameter, 1)), 0, 127)
    THEN Throw("Error")
    ELSE Repeat(Len(sanitizeChannels(channel)),
                Then(selectNonRegisteredParameter(parameter, channel, t, now),
                     Then(setCurrentRegisteredParameter(Arr(ConcatToArray(data)),
                                                        channel, t, now),
                          deselectRegisteredParameter(channel, t, now))))

\* a variant of incrementRegisteredParameter that steps after the deselection
incrementRegisteredParameterStepLast(parameter, channel, t, now) ==
    IF ~Truthy(resolve(parameter)) THEN Throw("Error")
    ELSE Repeat(Len(sanitizeChannels(channel)),
                Then(selectRegisteredParameter(resolve(parameter), channel, t, now),
                     Then(deselectRegisteredParameter(channel, t, now),
                          sendControlChange(Num(96), Num(0), channel, t, now))))

\* a variant of incrementRegisteredParameter that throws what
\* decrementRegisteredParameter throws
incrementRegisteredParameterTypeError(parameter, channel, t, now) ==
    IF ~Truthy(resolve(parameter)) THEN Throw("TypeError")
    ELSE Repeat(Len(sanitizeChannels(channel)),
                Then(selectRegisteredParameter(resolve(parameter), channel, t, now),
                     Then(sendControlChange(Num(96), Num(0), channel, t, now),
                          deselectRegisteredParameter(channel, t, now))))

\* Output.incrementRegisteredParameter
incrementRegisteredParameter(parameter, channel, t, now) ==
    IF ~Truthy(resolve(parameter)) THEN Throw("Error")
    ELSE Repeat(Len(sanitizeChannels(channel)),
                Then(selectRegisteredParameter(resolve(parameter), channel, t, now),
                     Then(sendControlChange(Num(96), Num(0), channel, t, now),
                          deselectRegisteredParameter(channel, t, now))))

\* a variant of decrementRegisteredParameter that leaves the parameter selected
decrementRegisteredParameterNoDeselect(parameter, channel, t, now) ==
    IF ~Truthy(resolve(parameter)) THEN Throw("TypeError")
    ELSE Repeat(Len(sanitizeChannels(channel)),
                Then(selectRegisteredParameter(resolve(parameter), channel, t, now),
                     sendControlChange(Num(97), Num(0), channel, t, now)))

\* Output.decrementRegisteredParameter
decrementRegisteredParameter(parameter, channel, t, now) ==
    IF ~Truthy(resolve(parameter)) THEN Throw("TypeError")
    ELSE Repeat(Len(sanitizeChannels(channel)),
                Then(selectRegisteredParameter(resolve(parameter), channel, t, now),
                     Then(sendControlChange(Num(97), Num(0), channel, t, now),
                          deselectRegisteredParameter(channel, t, now))))

(***************************************************************************)
(* Tuning program and tuning bank.                                         *)
(***************************************************************************)
\* Output.setTuningProgram
setTuningProgram(value, channel, t, now) ==
    LET set(v) ==
            IF OutOfRange(v, 0, 127) THEN Throw("RangeError")
            ELSE Repeat(Len(sanitizeChannels(channel)),
                        setRegisteredParameter(Str("tuningprogram"), v, channel,
                                               t, now))
    IN  set(MathFloor(value))

\* Output.setTuningBank
setTuningBank(value, channel, t, now) ==
    LET set(v) ==
            IF OutOfRange(v, 0, 127) THEN Throw("RangeError")
            ELSE Repeat(Len(sanitizeChannels(channel)),
                        setRegisteredParameter(Str("tuningbank"), v, channel,
                                               t, now))
    IN  set(OrElse(MathFloor(value), Num(0)))

\* setRegisteredParameter for each <<parameter, data>> of a list, in order,
\* up to the first that throws
RECURSIVE setRegisteredParameters(_, _, _, _)
setRegisteredParameters(params, channel, t, now) ==
    IF params = <<>> THEN Done
    ELSE Then(setRegisteredParameter(Head(params)[1], Head(params)[2],
                                     channel, t, now),
              setRegisteredParameters(Tail(params), channel, t, now))

\* Output.setMasterTuning(value, channel, {time: t}) for a value of k /
\* BendSteps semitones: the whole semitones, plus 64, as channel coarse tuning
\* and the rest, on 14 bits, as channel fine tuning
setMasterTuning(value, channel, t, now) ==
    LET fine(level) == Arr(<<Num((level \div 128) % 128), Num(level % 128)>>)
        tune(infinite, k) ==
            IF infinite \/ k <= (0 - 65) * BendSteps \/ k >= 64 * BendSteps
            THEN Throw("RangeError")
            ELSE Repeat(Len(sanitizeChannels(channel)),
                        setRegisteredParameters(
                            <<(<<Str("channelcoarsetuning"),
                                 Num((k \div BendSteps) + 64)>>),
                              (<<Str("channelfinetuning"),
                                 fine(MathRound(((k % BendSteps) + BendSteps) * 16383,
                                                2 * BendSteps))>>)>>,
                            channel, t, now))
        steps(x) ==
            IF value.t = "frac" THEN value.n
            ELSE IF x.t = "num" THEN x.n * BendSteps
            ELSE 0
        number(x) == tune(value.t # "frac" /\ x.t = "inf", steps(x))
    IN  number(parseFloat(value))

(***************************************************************************)
(* System messages.                                                        *)
(***************************************************************************)
\* a variant of sendSysex that leaves out the end of the message
sendSysexUnterminated(manufacturer, data, t, now, strict) ==
    send(Num(MIDI_SYSTEM_MESSAGES.sysex),
         Arr(ConcatToArray(manufacturer) \o ConcatToArray(data)),
         convertToTimestamp(t, now), strict)

\* Output.sendSysex(manufacturer, data, {time: t})
sendSysex(manufacturer, data, t, now, strict) ==
    send(Num(MIDI_SYSTEM_MESSAGES.sysex),
         Arr(ConcatToArray(manufacturer) \o ConcatToArray(data)
                \o <<Num(MIDI_SYSTEM_MESSAGES.sysexend)>>),
         convertToTimestamp(t, now), strict)

\* Output.setSong(value, {time: t})
setSong(value, t, now) ==
    LET select(v) ==
            IF v.t = "nan" \/ OutOfRange(v, 1, 128) THEN Throw("RangeError")
            ELSE sendBytes(MIDI_SYSTEM_MESSAGES.songselect, <<v>>,
                           convertToTimestamp(t, now))
    IN  select(parseInt(value))

\* Output.sendTimecodeQuarterFrame(value, {time: t}): the value goes to send
\* as it is
sendTimecodeQuarterFrame(value, t, now, strict) ==
    send(Num(MIDI_SYSTEM_MESSAGES.timecode), value, convertToTimestamp(t, now),
         strict)

\* Output.setSongPosition(value, {time: t}): Math.floor(value) || 0, then
\* (value >> 7) & 0x7F and value & 0x7F (on 32-bit integers; what is not a
\* finite number is 0 to the shift and the mask)
setSongPosition(value, t, now) ==
    LET position(v) ==
            sendBytes(MIDI_SYSTEM_MESSAGES.songposition,
                      <<Num((v \div 128) % 128), Num(v % 128)>>,
                      convertToTimestamp(t, now))
        finite(x) == IF x.t = "num" THEN x.n ELSE 0
    IN  position(finite(OrElse(MathFloor(value), Num(0))))

\* Output.sendSongSelect(value, {time: t}), the deprecated name of setSong
sendSongSelect(value, t, now) == setSong(value, t, now)

\* Output.sendTuneRequest, sendClock, sendStart, sendContinue, sendStop,
\* sendActiveSensing and sendReset ({time: t}): the status alone, no data
sendSystemMessage(name, t, now) ==
    send(Num(MIDI_SYSTEM_MESSAGES[name]), Undefined, convertToTimestamp(t, now),
         TRUE)

\* Output.clear(): the host's clear when it has one, a warning otherwise; no
\* message is handed over either way
clear(implemented) == Done

(***************************************************************************)
(* The arguments the operations are called with.                           *)
(***************************************************************************)
ChannelPool == {1, 16}

\* arrays of two to MaxTargets channels
ChannelArrays ==
    {Arr([i \in DOMAIN f |-> Num(f[i])]) :
        f \in UNION {[1..k -> ChannelPool] : k \in 2..MaxTargets}}

\* a channel given explicitly: a number (0 and 17 are no channel) or an array
ExplicitChannels == {Num(c) : c \in {0, 1, 16, 17}} \cup ChannelArrays

ChannelArgs == {Undefined} \cup ExplicitChannels

Plus(c) == Chars(<<"+">> \o c)

TimeArgs ==
    {Undefined, Num(0), Num(1), Num(3), Plus(<<"5">>), Plus(<<"0">>),
     Plus(<<"-", "5">>), Plus(<<"a", "b", "c">>), Chars(<<"a", "b", "c">>)}

StatusArgs ==
    {Str("xxx"), Arr(<<>>), NaN, Undefined, Null, Obj}
        \cup {Num(n) : n \in {-1, 0, 64, 127, 128, 144, 160, 176, 192, 240, 248,
                              255, 256}}

SendDataArgs ==
    {Undefined, Str("xxx"), NaN, Null, Infinity, Num(-1), Num(64), Num(256),
     Arr(<<>>), Arr(<<Num(64)>>), Arr(<<Num(64), Num(64)>>),
     Arr(<<Num(64), Num(200)>>), Arr(<<Num(1), Num(2), Num(247)>>),
     Arr(<<Str("xxx"), Num(64)>>)}

TimestampArgs == {Undefined, Num(0), Num(5), False}

ControllerArgs ==
    {Str("bankselectcoarse"), Str("brightness"), Str("xxx"), Undefined}
        \cup {Num(n) : n \in {-1, 0, 119, 120, 127}}

ValueArgs ==
    {Str("xxx"), Undefined, NaN, Infinity}
        \cup {Num(n) : n \in {-128, -1, 0, 64, 127, 128, 256}}

\* bends from just below -1 to just above 1, and what is not a number
BendArgs ==
    {Frac(k) : k \in (0 - BendSteps - 1)..(BendSteps + 1)}
        \cup {NaN, Undefined, Null, Str("xxx"), Infinity}

\* tuning program and bank numbers around both ends of 0..127 and 1..128, and
\* what is not a finite number
TuningArgs ==
    {Num(v) : v \in {-1, 0, 1, 64, 127, 128, 129}}
        \cup {NaN, Undefined, Null, Infinity, NegInfinity}

\* values of a time code quarter frame: data bytes, what is past them and
\* what is no number
TimecodeArgs ==
    {Num(v) : v \in {0, 113, 127, 128, 200}} \cup {Undefined, NaN}

\* song positions: both ends of 0..16383, what is past them, what is no number
SongPositionArgs ==
    {Num(v) : v \in {-1, 0, 127, 128, 16383, 16384}}
        \cup {Undefined, NaN, Infinity}

\* channel mode commands, by name and by number, and what is neither
ChannelModeArgs ==
    {Str("allsoundoff"), Str("monomodeon"), Str("xxx"), Undefined}
        \cup {Num(n) : n \in {119, 120, 122, 127, 128}}

ChannelModeValues == {Undefined, Num(-1), Num(0), Num(127), Num(128)}

ChannelModeChannels ==
    {Num(1), Num(3), Num(16), Arr(<<Num(3), Num(16)>>), Arr(<<>>)}

\* a manufacturer: one byte or three, or something else
ManufacturerArgs ==
    {Num(66), Num(128), Arr(<<Num(0), Num(33), Num(9)>>),
     Arr(<<Num(0), Num(33)>>)}

\* payloads of up to MaxPayload bytes, and payloads with what is no data byte
SysexDataArgs ==
    {Arr([i \in DOMAIN f |-> Num(f[i])]) :
        f \in UNION {[1..k -> {1, 127}] : k \in 0..MaxPayload}}
        \cup {Undefined, Arr(<<Num(1), Num(247)>>), Arr(<<Num(200)>>),
              Arr(<<Str("xxx")>>)}

\* the system messages that carry no data, by their names in the table
SystemMessageArgs ==
    {"tunerequest", "clock", "start", "continue", "stop", "activesensing",
     "reset"}

\* notes: numbers at both ends of 0..127 and past them, names (C4 is 60, G9 is
\* 127, G#9 is past the end), what is no note, and arrays of those
NoteArgs ==
    {Num(64), Num(0), Num(-1), Num(128), Undefined, Null, Obj,
     Chars(<<"C", "4">>), Chars(<<"G", "9">>), Chars(<<"G", "#", "9">>),
     Chars(<<"Z", "-", "8">>), Chars(<<"R", "2", "2">>),
     Arr(<<Chars(<<"x">>)>>), Arr(<<Num(64), Num(67)>>), Arr(<<Num(64), Num(64)>>),
     Arr(<<Num(64), Chars(<<"Z", "-", "8">>)>>),
     Arr(<<Num(128), Chars(<<"E", "b", "-", "1">>)>>)}

DurationArgs == {Undefined, NaN, Null, Num(-1), Num(0), Num(3)}

\* velocity options: none, decimal ones, raw ones, and invalid ones
PlayNoteOptions ==
    {Options(d, Undefined, Undefined, FALSE) : d \in DurationArgs}
        \cup {Options(d, v[1], v[2], v[3]) :
                d \in {Undefined, Num(3)},
                v \in {<<Frac(BendSteps), Frac(3), FALSE>>, <<Num(2), Null, FALSE>>,
                       <<Num(100), Frac(5), TRUE>>, <<Num(128), Num(0), TRUE>>}}

PlayNoteTimeArgs == {Undefined, Num(1), Num(3), Plus(<<"5">>)}

\* the calls of playNote: every combination with an explicit channel, and a few
\* with the channel left out (every channel of the port)
PlayNoteCalls ==
    (NoteArgs \X ExplicitChannels \X PlayNoteOptions \X PlayNoteTimeArgs)
        \cup ({Num(64), Arr(<<Num(64), Num(67)>>), Num(128)}
                \X {Undefined}
                \X {Options(d, Undefined, Undefined, FALSE) : d \in {Undefined, Num(3)}}
                \X {Undefined, Plus(<<"5">>)})

\* master tunings around both ends of the range -65 < value < 64, in steps of
\* 1 / BendSteps, and what is not a number
MasterTuningArgs ==
    {Frac(k) : k \in {(0 - 65) * BendSteps - 1, (0 - 65) * BendSteps,
                      (0 - 65) * BendSteps + 1, (0 - 64) * BendSteps - 1,
                      (0 - 64) * BendSteps, 0 - 1, 0, 3, 63 * BendSteps,
                      64 * BendSteps - 1, 64 * BendSteps, 64 * BendSteps + 1}}
        \cup {Num(-65), Num(-64), Num(63), Num(64), Undefined, NaN, Infinity,
              NegInfinity, Chars(<<"a", "b", "c">>)}

ParameterArgs ==
    {Str("pitchbendrange"), Str("rollangle"), Str("xxx"), Num(0),
     Arr(<<Num(0), Num(5)>>), Arr(<<Num(128), Num(0)>>),
     Arr(<<Num(3), Num(-1)>>), Arr(<<Num(0)>>)}

DataArgs ==
    {Undefined, Str("xxx"), Num(-1), Num(0), Num(127), Num(128),
     Arr(<<Num(1), Num(2)>>), Arr(<<Num(1), Num(128)>>),
     Arr(<<Num(200), Num(1)>>)}

ParameterTimeArgs == {Undefined, Plus(<<"5">>)}

\* the calls of the parameter operations: every combination with an explicit
\* channel, and a few with the channel left out (every channel of the port)
ParameterCalls ==
    (ParameterArgs \X DataArgs \X ExplicitChannels \X ParameterTimeArgs)
        \cup ({Str("pitchbendrange"), Str("xxx"), Arr(<<Num(0), Num(5)>>)}
                \X {Undefined, Num(127)}
                \X {Undefined} \X {Undefined})

(***************************************************************************)
(* The state: the clock, the sysex option the session was enabled with,    *)
(* the caller's position, the call it made last and what that call did to  *)
(* the transport and how it ended.                                         *)
(***************************************************************************)
NoCall == [op |-> "none", p1 |-> Undefined, p2 |-> Undefined,
           channel |-> Undefined, t |-> Undefined, strict |-> TRUE]

\* no statechange notification yet
NoNotification ==
    [connection |-> "none", state |-> "none", by |-> 0, handled |-> FALSE,
     emitted |-> <<>>, to |-> {}]

\* new Output(midiOutput) for a MIDIOutput of type "output": the transport is
\* kept, the 16 channels are created and the statechange handler is bound
Constructed ==
    /\ midiOutput = "port"
    /\ channels = 1..NumChannels
    /\ destroyed = {}
    /\ listeners = {}
    /\ onstatechange = "bound"
    /\ tasks = <<>>
    /\ notified = NoNotification

Init ==
    /\ time = 0
    /\ sysex \in BOOLEAN
    /\ pc = "idle"
    /\ call = NoCall
    /\ sent = <<>>
    /\ handed = 0
    /\ outcome = "none"
    /\ Constructed
    /\ received = <<>>
    /\ events = <<>>
    /\ inputChannel = [number |-> Num(1), input |-> "input", listeners |-> {},
                       op |-> "none", removed |-> {}]

\* a variant of the return in which a call that ran to its end gives nothing
\* back
ReturnsUndefined(c, r) ==
    /\ pc' = "returned"
    /\ call' = c
    /\ sent' = r.msgs
    /\ handed' = r.handed
    /\ outcome' = IF r.out = "ok" THEN "undefined" ELSE r.out
    /\ UNCHANGED <<time, sysex, port, inbound>>

\* a call ran to its end: r is what it did
Returns(c, r) ==
    /\ pc' = "returned"
    /\ call' = c
    /\ sent' = r.msgs
    /\ handed' = r.handed
    /\ outcome' = IF r.out = "ok" THEN "this" ELSE r.out
    /\ UNCHANGED <<time, sysex, port, inbound>>

Send ==
    /\ pc = "idle"
    /\ \E status \in StatusArgs, data \in SendDataArgs, ts \in TimestampArgs,
       strict \in BOOLEAN :
        Returns([op |-> "send", p1 |-> status, p2 |-> data,
                 channel |-> Undefined, t |-> ts, strict |-> strict],
                send(status, data, ts, strict))

SendControlChange ==
    /\ pc = "idle"
    /\ \E controller \in ControllerArgs, value \in ValueArgs,
       channel \in ChannelArgs, t \in TimeArgs :
        Returns([op |-> "sendControlChange", p1 |-> controller, p2 |-> value,
                 channel |-> channel, t |-> t, strict |-> TRUE],
                sendControlChange(controller, value, channel, t, time))

SetRegisteredParameter ==
    /\ pc = "idle"
    /\ \E c \in ParameterCalls :
        Returns([op |-> "setRegisteredParameter", p1 |-> c[1], p2 |-> c[2],
                 channel |-> c[3], t |-> c[4], strict |-> TRUE],
                setRegisteredParameter(c[1], c[2], c[3], c[4], time))

SetNonRegisteredParameter ==
    /\ pc = "idle"
    /\ \E c \in ParameterCalls :
        Returns([op |-> "setNonRegisteredParameter", p1 |-> c[1], p2 |-> c[2],
                 channel |-> c[3], t |-> c[4], strict |-> TRUE],
                setNonRegisteredParameter(c[1], c[2], c[3], c[4], time))

IncrementRegisteredParameter ==
    /\ pc = "idle"
    /\ \E c \in ParameterCalls :
        /\ c[2].t = "undefined"
        /\ Returns([op |-> "incrementRegisteredParameter", p1 |-> c[1],
                    p2 |-> Undefined, channel |-> c[3], t |-> c[4],
                    strict |-> TRUE],
                   incrementRegisteredParameter(c[1], c[3], c[4], time))

DecrementRegisteredParameter ==
    /\ pc = "idle"
    /\ \E c \in ParameterCalls :
        /\ c[2].t = "undefined"
        /\ Returns([op |-> "decrementRegisteredParameter", p1 |-> c[1],
                    p2 |-> Undefined, channel |-> c[3], t |-> c[4],
                    strict |-> TRUE],
                   decrementRegisteredParameter(c[1], c[3], c[4], time))

SendPitchBend ==
    /\ pc = "idle"
    /\ \E bend \in BendArgs, channel \in ChannelArgs, t \in ParameterTimeArgs :
        Returns([op |-> "sendPitchBend", p1 |-> bend, p2 |-> Undefined,
                 channel |-> channel, t |-> t, strict |-> TRUE],
                sendPitchBend(bend, channel, t, time))

SetTuningProgram ==
    /\ pc = "idle"
    /\ \E value \in TuningArgs, channel \in ExplicitChannels,
          t \in ParameterTimeArgs :
        Returns([op |-> "setTuningProgram", p1 |-> value, p2 |-> Undefined,
                 channel |-> channel, t |-> t, strict |-> TRUE],
                setTuningProgram(value, channel, t, time))

SetTuningBank ==
    /\ pc = "idle"
    /\ \E value \in TuningArgs, channel \in ExplicitChannels,
          t \in ParameterTimeArgs :
        Returns([op |-> "setTuningBank", p1 |-> value, p2 |-> Undefined,
                 channel |-> channel, t |-> t, strict |-> TRUE],
                setTuningBank(value, channel, t, time))

SetSong ==
    /\ pc = "idle"
    /\ \E value \in TuningArgs, t \in TimeArgs :
        Returns([op |-> "setSong", p1 |-> value, p2 |-> Undefined,
                 channel |-> Undefined, t |-> t, strict |-> TRUE],
                setSong(value, t, time))

SendSysex ==
    /\ pc = "idle"
    /\ \E manufacturer \in ManufacturerArgs, data \in SysexDataArgs,
          t \in ParameterTimeArgs, strict \in BOOLEAN :
        Returns([op |-> "sendSysex", p1 |-> manufacturer, p2 |-> data,
                 channel |-> Undefined, t |-> t, strict |-> strict],
                sendSysex(manufacturer, data, t, time, strict))

SendSongSelect ==
    /\ pc = "idle"
    /\ \E value \in TuningArgs, t \in TimeArgs :
        Returns([op |-> "sendSongSelect", p1 |-> value, p2 |-> Undefined,
                 channel |-> Undefined, t |-> t, strict |-> TRUE],
                sendSongSelect(value, t, time))

SendSystemMessage ==
    /\ pc = "idle"
    /\ \E name \in SystemMessageArgs, t \in TimeArgs :
        Returns([op |-> "sendSystemMessage", p1 |-> Str(name), p2 |-> Undefined,
                 channel |-> Undefined, t |-> t, strict |-> TRUE],
                sendSystemMessage(name, t, time))

SendChannelMode ==
    /\ pc = "idle"
    /\ \E command \in ChannelModeArgs, value \in ChannelModeValues,
          channel \in ChannelModeChannels, t \in ParameterTimeArgs :
        Returns([op |-> "sendChannelMode", p1 |-> command, p2 |-> value,
                 channel |-> channel, t |-> t, strict |-> TRUE],
                sendChannelMode(command, value, channel, t, time))

SendTimecodeQuarterFrame ==
    /\ pc = "idle"
    /\ \E value \in TimecodeArgs, t \in ParameterTimeArgs, strict \in BOOLEAN :
        Returns([op |-> "sendTimecodeQuarterFrame", p1 |-> value,
                 p2 |-> Undefined, channel |-> Undefined, t |-> t,
                 strict |-> strict],
                sendTimecodeQuarterFrame(value, t, time, strict))

SetSongPosition ==
    /\ pc = "idle"
    /\ \E value \in SongPositionArgs, t \in ParameterTimeArgs :
        Returns([op |-> "setSongPosition", p1 |-> value, p2 |-> Undefined,
                 channel |-> Undefined, t |-> t, strict |-> TRUE],
                setSongPosition(value, t, time))

OutputClear ==
    /\ pc = "idle"
    /\ \E implemented \in BOOLEAN :
        Returns([op |-> "clear", p1 |-> Undefined, p2 |-> Undefined,
                 channel |-> Undefined, t |-> Undefined, strict |-> implemented],
                clear(implemented))

PlayNote ==
    /\ pc = "idle"
    /\ \E c \in PlayNoteCalls :
        Returns([op |-> "playNote", p1 |-> c[1], p2 |-> c[3], channel |-> c[2],
                 t |-> c[4], strict |-> TRUE],
                playNote(c[1], c[2], c[3], c[4], time))

SetMasterTuning ==
    /\ pc = "idle"
    /\ \E value \in MasterTuningArgs, channel \in ExplicitChannels,
          t \in ParameterTimeArgs :
        Returns([op |-> "setMasterTuning", p1 |-> value, p2 |-> Undefined,
                 channel |-> channel, t |-> t, strict |-> TRUE],
                setMasterTuning(value, channel, t, time))

\* the caller takes the result and the record of the transport is reset
Clear ==
    /\ pc = "returned"
    /\ pc' = "idle"
    /\ call' = NoCall
    /\ sent' = <<>>
    /\ handed' = 0
    /\ outcome' = "none"
    /\ UNCHANGED <<time, sysex, port, inbound>>

\* the clock WebMidi.time advances
Tick ==
    /\ pc = "idle"
    /\ time < MaxTime
    /\ time' = time + 1
    /\ UNCHANGED <<sysex, pc, call, sent, handed, outcome, port, inbound>>

Next ==
    \/ Send
    \/ SendControlChange
    \/ SetRegisteredParameter
    \/ SetNonRegisteredParameter
    \/ IncrementRegisteredParameter
    \/ DecrementRegisteredParameter
    \/ SendPitchBend
    \/ SetTuningProgram
    \/ SetTuningBank
    \/ SetSong
    \/ SendSysex
    \/ SendSongSelect
    \/ SendSystemMessage
    \/ SendChannelMode
    \/ SendTimecodeQuarterFrame
    \/ SetSongPosition
    \/ OutputClear
    \/ PlayNote
    \/ SetMasterTuning
    \/ Clear
    \/ Tick

Spec == Init /\ [][Next]_vars

(***************************************************************************)
(* The life of the Output: open, close and destroy, which wrap the         *)
(* promises of the host's open and close.  A call is recorded in tasks     *)
(* with the state of the promise it returned (pending, resolved or         *)
(* rejected), the value it settled with, and what the host's own promise   *)
(* did: "none" when the host was not asked, "pending", "ok" or the error   *)
(* the host rejected with.  again tells that a destroy() had already been  *)
(* resolved when the call was made.                                        *)
(***************************************************************************)
\* the events of an Output
OutputEvents == {"opened", "closed", "disconnected"}

\* the errors the host's open and close fail with
HostErrors == {"InvalidAccessError", "InvalidStateError"}

\* a destroy() call of the Output has been resolved
Destroyed ==
    \E i \in 1..Len(tasks) : tasks[i].op = "destroy" /\ tasks[i].state = "resolved"

\* the promise of a call that waits for the host
Pending(op) ==
    [op |-> op, state |-> "pending", value |-> "undefined", host |-> "pending",
     again |-> Destroyed, told |-> FALSE]

\* the promise of a call that ended without the host
Settled(op, state, value) ==
    [op |-> op, state |-> state, value |-> value, host |-> "none",
     again |-> Destroyed, told |-> FALSE]

\* EventEmitter.addListener(event, callback) on the Output; since is the number
\* of asynchronous calls made before the listener was registered
AddListener ==
    /\ Cardinality(listeners) < MaxListeners
    /\ \E e \in OutputEvents :
        listeners' = listeners \cup {[event |-> e, since |-> Len(tasks)]}
    /\ UNCHANGED <<midiOutput, channels, destroyed, onstatechange, tasks,
                   notified, sending, inbound>>

\* a variant of destroy that empties the channel list only once the host has
\* closed the port: not at all in the steps it takes here
DestroyKeepingChannels ==
    /\ Len(tasks) < MaxCalls
    /\ listeners' = {}
    /\ destroyed' = destroyed \cup channels
    /\ IF midiOutput = "null"
       THEN /\ tasks' = Append(tasks, Settled("destroy", "rejected", "TypeError"))
            /\ UNCHANGED onstatechange
       ELSE /\ onstatechange' = "null"
            /\ tasks' = Append(tasks, Pending("destroy"))
    /\ UNCHANGED <<channels, midiOutput, notified, sending, inbound>>

\* a variant of destroy that leaves the listeners in place
DestroyKeepingListeners ==
    /\ Len(tasks) < MaxCalls
    /\ destroyed' = destroyed \cup channels
    /\ channels' = {}
    /\ IF midiOutput = "null"
       THEN /\ tasks' = Append(tasks, Settled("destroy", "rejected", "TypeError"))
            /\ UNCHANGED onstatechange
       ELSE /\ onstatechange' = "null"
            /\ tasks' = Append(tasks, Pending("destroy"))
    /\ UNCHANGED <<listeners, midiOutput, notified, sending, inbound>>

\* Output.destroy() up to its await: the listeners are removed, every channel
\* is destroyed, the channel list is emptied, the handler is taken off the
\* transport (a TypeError, which rejects the promise, when _midiOutput is null)
\* and close() is called, which asks the host to close
Destroy ==
    /\ Len(tasks) < MaxCalls
    /\ listeners' = {}
    /\ destroyed' = destroyed \cup channels
    /\ channels' = {}
    /\ IF midiOutput = "null"
       THEN /\ tasks' = Append(tasks, Settled("destroy", "rejected", "TypeError"))
            /\ UNCHANGED onstatechange
       ELSE /\ onstatechange' = "null"
            /\ tasks' = Append(tasks, Pending("destroy"))
    /\ UNCHANGED <<midiOutput, notified, sending, inbound>>

\* Output.close(): the host is asked to close when there is a transport
Close ==
    /\ Len(tasks) < MaxCalls
    /\ tasks' = Append(tasks, IF midiOutput = "null"
                              THEN Settled("close", "resolved", "undefined")
                              ELSE Pending("close"))
    /\ UNCHANGED <<midiOutput, channels, destroyed, listeners, onstatechange,
                   notified, sending, inbound>>

\* Output.open() up to its await: the host is asked to open; without a
\* transport the TypeError is caught and the promise rejected with it
Open ==
    /\ Len(tasks) < MaxCalls
    /\ tasks' = Append(tasks, IF midiOutput = "null"
                              THEN Settled("open", "rejected", "TypeError")
                              ELSE Pending("open"))
    /\ UNCHANGED <<midiOutput, channels, destroyed, listeners, onstatechange,
                   notified, sending, inbound>>

\* a variant of the rest of open() that wraps the error of the host
openSettledWrapping(task, host) ==
    IF host = "ok"
    THEN [task EXCEPT !.state = "resolved", !.value = "this", !.host = host]
    ELSE [task EXCEPT !.state = "rejected", !.value = "Error", !.host = host]

\* the rest of open() once the host's open has settled: the Output when it
\* succeeded, the host's error when it failed
openSettled(task, host) ==
    IF host = "ok"
    THEN [task EXCEPT !.state = "resolved", !.value = "this", !.host = host]
    ELSE [task EXCEPT !.state = "rejected", !.value = host, !.host = host]

\* the rest of close(), and of destroy(), once the host's close has settled
closeSettled(task, host) ==
    IF host = "ok"
    THEN [task EXCEPT !.state = "resolved", !.host = host]
    ELSE [task EXCEPT !.state = "rejected", !.value = host, !.host = host]

\* the host's promise of a pending call settles and the call runs to its end;
\* destroy() drops the transport after a close that succeeded
HostSettles ==
    /\ \E i \in 1..Len(tasks), host \in {"ok"} \cup HostErrors :
        /\ tasks[i].state = "pending"
        /\ tasks' = [tasks EXCEPT ![i] = IF tasks[i].op = "open"
                                         THEN openSettled(tasks[i], host)
                                         ELSE closeSettled(tasks[i], host)]
        /\ midiOutput' = IF tasks[i].op = "destroy" /\ host = "ok"
                         THEN "null" ELSE midiOutput
    /\ UNCHANGED <<channels, destroyed, listeners, onstatechange, notified,
                   sending, inbound>>

\* the connection and the state a port can tell of
PortConnections == {"open", "closed", "pending"}

PortStates == {"connected", "disconnected"}

\* a variant of the handler that names the Output as the target of every event
onStateChangeTargetThis(connection, state) ==
    IF connection = "open" THEN <<[type |-> "opened", target |-> "this"]>>
    ELSE IF connection = "closed" /\ state = "connected"
    THEN <<[type |-> "closed", target |-> "this"]>>
    ELSE IF connection = "closed" /\ state = "disconnected"
    THEN <<[type |-> "disconnected", target |-> "this"]>>
    ELSE <<>>

\* Output._onStateChange(e): the events it emits for e.port.connection and
\* e.port.state; the target of "disconnected" is an object that describes the
\* port, the Output no longer being available
onStateChange(connection, state) ==
    IF connection = "open" THEN <<[type |-> "opened", target |-> "this"]>>
    ELSE IF connection = "closed" /\ state = "connected"
    THEN <<[type |-> "closed", target |-> "this"]>>
    ELSE IF connection = "closed" /\ state = "disconnected"
    THEN <<[type |-> "disconnected", target |-> "descriptor"]>>
    ELSE <<>>

\* a variant of the notification that reaches the handler though it was taken
\* off the transport
NotifyAlways(connection, state, by) ==
    LET emit(es) ==
            notified' = [connection |-> connection, state |-> state, by |-> by,
                         handled |-> TRUE, emitted |-> es,
                         to |-> {l \in listeners :
                                   \E i \in 1..Len(es) : es[i].type = l.event}]
    IN  emit(onStateChange(connection, state))

\* the host fires statechange on the port: the handler, when it is on the
\* transport, emits its events, which go to the listeners of their type
Notify(connection, state, by) ==
    LET emit(es) ==
            notified' = [connection |-> connection, state |-> state, by |-> by,
                         handled |-> onstatechange = "bound", emitted |-> es,
                         to |-> {l \in listeners :
                                   \E i \in 1..Len(es) : es[i].type = l.event}]
    IN  emit(IF onstatechange = "bound" THEN onStateChange(connection, state)
             ELSE <<>>)

\* the host tells of the change a call brought about: the port is open after
\* an open that succeeded, closed after a close that succeeded
StateChangeOfCall ==
    /\ \E i \in 1..Len(tasks) :
        /\ tasks[i].host = "ok"
        /\ ~tasks[i].told
        /\ tasks' = [tasks EXCEPT ![i].told = TRUE]
        /\ Notify(IF tasks[i].op = "open" THEN "open" ELSE "closed",
                  "connected", i)
    /\ UNCHANGED <<midiOutput, channels, destroyed, listeners, onstatechange,
                   sending, inbound>>

\* the host tells of a change no call of this Output brought about: the
\* device was unplugged or plugged in, or the port was opened or closed by
\* someone else
StateChangeOfDevice ==
    /\ \E connection \in PortConnections, state \in PortStates :
        Notify(connection, state, 0)
    /\ UNCHANGED <<midiOutput, channels, destroyed, listeners, onstatechange,
                   tasks, sending, inbound>>

LifecycleNext ==
    \/ AddListener
    \/ Destroy
    \/ Close
    \/ Open
    \/ HostSettles
    \/ StateChangeOfCall

LifecycleSpec == Init /\ [][LifecycleNext]_vars

(***************************************************************************)
(* The channel operations of the Output, which pass the call on to the     *)
(* channel object of each channel asked for:                               *)
(*   sanitizeChannels(channel).forEach(ch => this.channels[ch].op(...))    *)
(***************************************************************************)
ChannelOperations ==
    {"sendControlChange", "playNote", "setPitchBend", "setRegisteredParameter"}

\* destroy() has been invoked on the Output
Destroying == \E i \in 1..Len(tasks) : tasks[i].op = "destroy"

\* what the channel object of channel ch hands to the transport for the
\* operation, with arguments that are valid
channelOperation(op, ch, now) ==
    CASE op = "sendControlChange" ->
            sendControlChange(Num(7), Num(100), Num(ch), Undefined, now)
      [] op = "playNote" ->
            playNote(Num(60), Num(ch),
                     Options(Undefined, Undefined, Undefined, FALSE),
                     Undefined, now)
      [] op = "setPitchBend" ->
            sendPitchBend(Frac(0), Num(ch), Undefined, now)
      [] op = "setRegisteredParameter" ->
            setRegisteredParameter(Str("pitchbendrange"), Num(2), Num(ch),
                                   Undefined, now)

\* the forEach over the channels asked for: this.channels[ch] is undefined
\* for a channel that is not in the list, and calling a method of undefined
\* is a TypeError, which ends the call
RECURSIVE forEachChannel(_, _, _)
forEachChannel(op, chs, now) ==
    IF chs = <<>> THEN Done
    ELSE IF Head(chs) \notin channels THEN Throw("TypeError")
    ELSE Then(channelOperation(op, Head(chs), now),
              forEachChannel(op, Tail(chs), now))

ChannelCallChannels ==
    {Undefined, Num(1), Arr(<<Num(16), Num(1)>>), Arr(<<>>), Num(17)}

\* a channel operation is called on the Output; after tells whether destroy()
\* had been invoked by then
ChannelCall ==
    /\ pc = "idle"
    /\ \E op \in ChannelOperations, channel \in ChannelCallChannels :
        LET returns(r) ==
                /\ pc' = "returned"
                /\ call' = [op |-> op, p1 |-> Undefined, p2 |-> Undefined,
                            channel |-> channel, t |-> Undefined,
                            strict |-> TRUE, after |-> Destroying]
                /\ sent' = r.msgs
                /\ handed' = r.handed
                /\ outcome' = IF r.out = "ok" THEN "this" ELSE r.out
        IN  returns(forEachChannel(op, sanitizeChannels(channel), time))
    /\ UNCHANGED <<time, sysex, port, inbound>>

ChannelCallNext ==
    \/ ChannelCall
    \/ Clear
    \/ Destroy
    \/ Open
    \/ HostSettles

ChannelCallSpec == Init /\ [][ChannelCallNext]_vars

\* the statechange notifications of a port whatever their cause, with the
\* listeners of the Output and its destruction
StateChangeNext ==
    \/ AddListener
    \/ Destroy
    \/ HostSettles
    \/ StateChangeOfCall
    \/ StateChangeOfDevice

StateChangeSpec == Init /\ [][StateChangeNext]_vars

(***************************************************************************)
(* The decoder of an input channel.  An event carries its type, the        *)
(* channel, the bytes of the message it was decoded from, the note or      *)
(* controller number (-1 when it has none), its numeric value and, for the *)
(* events whose value is a boolean, that boolean as flag ("none" for the   *)
(* others).                                                                *)
(***************************************************************************)
Event(type, channel, data, number, value, flag) ==
    [type |-> type, channel |-> channel, data |-> data, number |-> number,
     value |-> value, flag |-> flag]

Flag(b) == IF b THEN "true" ELSE "false"

\* the event of each channel mode message besides "channelmode"
channelModeEvent(channel, data) ==
    LET mode(type, flag) == Event(type, channel, data, data[2], data[3], flag)
    IN  CASE data[2] = 120 -> mode("allsoundoff", "none")
          [] data[2] = 121 -> mode("resetallcontrollers", "none")
          [] data[2] = 122 -> mode("localcontrol", Flag(data[3] # 0))
          [] data[2] = 123 -> mode("allnotesoff", "none")
          [] data[2] = 124 -> mode("omnimode", "false")
          [] data[2] = 125 -> mode("omnimode", "true")
          [] data[2] = 126 -> mode("monomode", "true")
          [] data[2] = 127 -> mode("monomode", "false")

\* a variant of the decoder that takes every control change for a plain one
parseMessagePlain(type, channel, data) ==
    IF type = MIDI_CHANNEL_VOICE_MESSAGES.controlchange
    THEN <<Event("controlchange", channel, data, data[2], data[3], "none")>>
    ELSE <<>>

\* a variant of the decoder that reports 127 as mono mode on and 126 as off
parseMessageSwapped(type, channel, data) ==
    IF type = MIDI_CHANNEL_VOICE_MESSAGES.controlchange /\ data[2] \in {126, 127}
    THEN <<Event("channelmode", channel, data, data[2], data[3], "none"),
           Event("monomode", channel, data, data[2], data[3],
                 Flag(data[2] = 127))>>
    ELSE <<>>

\* the typed events of one message, in the order they are dispatched: by the
\* type in the high four bits of the status, a control change with a
\* controller from 120 to 127 being a channel mode message
parseMessage(type, channel, data) ==
    CASE type = MIDI_CHANNEL_VOICE_MESSAGES.noteoff ->
            <<Event("noteoff", channel, data, data[2], data[3], "none")>>
      [] type = MIDI_CHANNEL_VOICE_MESSAGES.noteon ->
            <<Event("noteon", channel, data, data[2], data[3], "none")>>
      [] type = MIDI_CHANNEL_VOICE_MESSAGES.keyaftertouch ->
            <<Event("keyaftertouch", channel, data, data[2], data[3], "none")>>
      [] type = MIDI_CHANNEL_VOICE_MESSAGES.controlchange ->
            (IF data[2] \in 120..127
             THEN <<Event("channelmode", channel, data, data[2], data[3], "none"),
                    channelModeEvent(channel, data)>>
             ELSE <<Event("controlchange", channel, data, data[2], data[3],
                          "none")>>)
      [] type = MIDI_CHANNEL_VOICE_MESSAGES.programchange ->
            <<Event("programchange", channel, data, -1, data[2] + 1, "none")>>
      [] type = MIDI_CHANNEL_VOICE_MESSAGES.channelaftertouch ->
            <<Event("channelaftertouch", channel, data, -1, data[2], "none")>>
      [] type = MIDI_CHANNEL_VOICE_MESSAGES.pitchbend ->
            <<Event("pitchbend", channel, data, -1, data[3] * 128 + data[2],
                    "none")>>
      [] OTHER -> <<>>

\* the events of one message: "midimessage" with the bytes as they came, then
\* the typed events
dispatch(data) ==
    <<Event("midimessage", (data[1] % 16) + 1, data, -1, -1, "none")>>
        \o parseMessage(data[1] \div 16, (data[1] % 16) + 1, data)

\* channel voice and channel mode messages as the host delivers them
InboundMessages ==
    {<<176 + ch, c, v>> : ch \in {0, 15}, c \in {0, 67, 119} \cup 120..127,
                          v \in {0, 34, 127}}
        \cup {<<status, 48, v>> : status \in {128, 144, 160, 224}, v \in {0, 87}}
        \cup {<<192, 88>>, <<208, 93>>}

\* a variant of the callback that puts the events of the newest message ahead
\* of those still waiting
ReceiveNewestFirst ==
    /\ Len(received) < MaxInbound
    /\ \E data \in InboundMessages :
        /\ received' = Append(received, data)
        /\ events' = dispatch(data) \o events
    /\ UNCHANGED <<sending, port, inputChannel>>

\* the host delivers a message: it is decoded and its events are dispatched
\* before the callback returns
Receive ==
    /\ Len(received) < MaxInbound
    /\ \E data \in InboundMessages :
        /\ received' = Append(received, data)
        /\ events' = events \o dispatch(data)
    /\ UNCHANGED <<sending, port, inputChannel>>

\* the listeners are done with the events
Forget ==
    /\ received # <<>>
    /\ received' = <<>>
    /\ events' = <<>>
    /\ UNCHANGED <<sending, port, inputChannel>>

InboundNext ==
    \/ Receive
    \/ Forget

InboundSpec == Init /\ [][InboundNext]_vars

(***************************************************************************)
(* The life of an input channel: listeners are added to it, by event name  *)
(* and callback, and destroy() lets go of its number, of the input that    *)
(* owns it and of its listeners.                                           *)
(***************************************************************************)
InputChannelEvents == {"midimessage", "noteon", "noteoff", "controlchange", "test"}

Callbacks == {"f", "g"}

\* EventEmitter.hasListener(event); without an argument (undefined), whether
\* the channel has any listener at all
hasListener(event) ==
    IF event = "undefined" THEN inputChannel.listeners # {}
    ELSE \E l \in inputChannel.listeners : l.event = event

\* channel.addListener(event, callback)
InputChannelAddListener ==
    /\ Cardinality(inputChannel.listeners) <= MaxListeners
    /\ \E e \in InputChannelEvents, f \in Callbacks :
        /\ [event |-> e, callback |-> f] \notin inputChannel.listeners
        /\ inputChannel' =
              [inputChannel EXCEPT !.listeners = @ \cup {[event |-> e, callback |-> f]},
                                   !.op = "addListener",
                                   !.removed = {}]
    /\ UNCHANGED <<sending, port, received, events>>

\* a variant of destroy that leaves the listeners in place
InputChannelDestroyKeepingListeners ==
    /\ inputChannel' = [inputChannel EXCEPT !.number = Null, !.input = "null",
                                            !.op = "destroy", !.removed = {}]
    /\ UNCHANGED <<sending, port, received, events>>

\* channel.destroy()
InputChannelDestroy ==
    /\ inputChannel' = [number |-> Null, input |-> "null", listeners |-> {},
                        op |-> "destroy", removed |-> inputChannel.listeners]
    /\ UNCHANGED <<sending, port, received, events>>

InputChannelNext ==
    \/ InputChannelAddListener
    \/ InputChannelDestroy

InputChannelSpec == Init /\ [][InputChannelNext]_vars

(***************************************************************************)
(* The encoder against the decoder: the pitch bend message sendPitchBend   *)
(* makes of a level, on one channel, is delivered by the transport to the  *)
(* input channel of that number, which decodes it.                         *)
(***************************************************************************)
PitchBendLevels == 0..16383

PitchBendLoopback ==
    /\ pc = "idle"
    /\ received = <<>>
    /\ \E nLevel \in PitchBendLevels, ch \in {1, NumChannels} :
        LET looped(r) ==
                /\ pc' = "returned"
                /\ call' = [op |-> "pitchBendLevel", p1 |-> Num(nLevel),
                            p2 |-> Undefined, channel |-> Num(ch),
                            t |-> Undefined, strict |-> TRUE]
                /\ sent' = r.msgs
                /\ handed' = r.handed
                /\ outcome' = IF r.out = "ok" THEN "this" ELSE r.out
                /\ received' = [i \in 1..Len(r.msgs) |-> r.msgs[i].bytes]
                /\ events' = IF r.msgs = <<>> THEN <<>>
                             ELSE dispatch(r.msgs[1].bytes)
        IN  looped(sendEach(MIDI_CHANNEL_VOICE_MESSAGES.pitchbend, <<ch>>,
                            pitchBendBytes(nLevel), Undefined))
    /\ UNCHANGED <<time, sysex, port, inputChannel>>

LoopbackNext ==
    \/ PitchBendLoopback
    \/ Clear
    \/ Forget

LoopbackSpec == Init /\ [][LoopbackNext]_vars

(***************************************************************************)
(* What the properties below speak of.                                     *)
(***************************************************************************)
Errors == {"TypeError", "RangeError", "Error"}

\* the channels the last call targets
Targets == sanitizeChannels(call.channel)

DistinctTargets == \A i, j \in 1..Len(Targets) : Targets[i] = Targets[j] => i = j

\* the control change messages handed over on channel ch, as <<controller,
\* value>> pairs in the order sent
OnChannel(ch) ==
    LET IsOn(m) == m.bytes[1] = 176 + (ch - 1)
        on == SelectSeq(sent, IsOn)
    IN  [i \in 1..Len(on) |-> <<on[i].bytes[2], on[i].bytes[3]>>]

\* every message handed over is a control change on a targeted channel
OnlyTargets ==
    \A i \in 1..Len(sent) :
        \E j \in 1..Len(Targets) : sent[i].bytes[1] = 176 + (Targets[j] - 1)

\* the parameter argument names no table entry and is not an array
UnknownParameter == ~IsArray(call.p1) /\ ~HasEntry(MIDI_REGISTERED_PARAMETER, call.p1)

\* the two bytes the parameter argument stands for
ParameterBytes ==
    IF IsArray(call.p1) THEN <<call.p1.a[1].n, call.p1.a[2].n>>
    ELSE MIDI_REGISTERED_PARAMETER[call.p1.s]

\* the parameter argument is a table name or a pair of bytes
ValidParameter ==
    IF IsArray(call.p1)
    THEN /\ Len(call.p1.a) = 2
         /\ \A i \in 1..2 : call.p1.a[i].t = "num" /\ call.p1.a[i].n \in 0..127
    ELSE HasEntry(MIDI_REGISTERED_PARAMETER, call.p1)

\* the data argument as a list of numbers, and whether it is one or two bytes
DataList == ConcatToArray(call.p2)

ValidData ==
    /\ Len(DataList) \in {1, 2}
    /\ \A i \in 1..Len(DataList) : DataList[i].t = "num" /\ DataList[i].n \in 0..127

ParameterOps ==
    {"setRegisteredParameter", "setNonRegisteredParameter",
     "incrementRegisteredParameter", "decrementRegisteredParameter"}

(***************************************************************************)
(* C1: a call of a validating operation that throws has handed nothing to  *)
(* the transport.                                                          *)
(***************************************************************************)
C1_NoPartialSend ==
    (call.op \in ParameterOps \cup {"sendControlChange"} /\ outcome \in Errors)
        => (handed = 0 /\ sent = <<>>)

(***************************************************************************)
(* C2: setRegisteredParameter with valid arguments hands over, on each     *)
(* targeted channel, exactly CC101 = parameter[0], CC100 = parameter[1],   *)
(* CC6 = data[0], CC38 = data[1] when data[1] is given, CC101 = 127,       *)
(* CC100 = 127, and nothing on any other channel.                          *)
(***************************************************************************)
SetSequence ==
    <<<<101, ParameterBytes[1]>>, <<100, ParameterBytes[2]>>, <<6, DataList[1].n>>>>
        \o (IF Len(DataList) = 2 THEN <<<<38, DataList[2].n>>>> ELSE <<>>)
        \o <<<<101, 127>>, <<100, 127>>>>

C2_SetSequencePerChannel ==
    (call.op = "setRegisteredParameter" /\ ValidParameter /\ ValidData
        /\ DistinctTargets)
        => /\ outcome = "this"
           /\ OnlyTargets
           /\ \A i \in 1..Len(Targets) : OnChannel(Targets[i]) = SetSequence

(***************************************************************************)
(* The stepping operations: what is sent on one channel.                   *)
(***************************************************************************)
Steppers == {"incrementRegisteredParameter", "decrementRegisteredParameter"}

\* the controller the last call steps with
StepController == IF call.op = "incrementRegisteredParameter" THEN 96 ELSE 97

\* the select, step and deselect messages of a stepping call
StepSequence ==
    <<<<101, ParameterBytes[1]>>, <<100, ParameterBytes[2]>>,
      <<StepController, 0>>, <<101, 127>>, <<100, 127>>>>

\* every message handed over is one of the messages of StepSequence
OnlyStepSequence ==
    \A i \in 1..Len(sent) :
        \E k \in 1..Len(StepSequence) :
            <<sent[i].bytes[2], sent[i].bytes[3]>> = StepSequence[k]

(***************************************************************************)
(* C3 as stated: decrementRegisteredParameter("pitchbendrange") returns    *)
(* the Output and hands exactly 6 messages, all of them select, step or    *)
(* deselect messages, to the transport.                                    *)
(***************************************************************************)
C3_SixMessages ==
    (call.op = "decrementRegisteredParameter" /\ call.p1 = Str("pitchbendrange")
        /\ call.channel = Undefined)
        => (outcome = "this" /\ Len(sent) = 6 /\ OnlyStepSequence)

(***************************************************************************)
(* C3 amended: decrementRegisteredParameter("pitchbendrange") returns the  *)
(* Output; every message it hands over is a control change on a targeted   *)
(* channel and one of CC101 = 0, CC100 = 0, CC97 = 0, CC101 = 127,         *)
(* CC100 = 127; with one targeted channel these are exactly those five     *)
(* messages, in that order.                                                *)
(***************************************************************************)
C3_DecrementPitchBendRange ==
    (call.op = "decrementRegisteredParameter" /\ call.p1 = Str("pitchbendrange"))
        => /\ outcome = "this"
           /\ OnlyTargets
           /\ OnlyStepSequence
           /\ Len(Targets) = 1 =>
                (Len(sent) = 5 /\ OnChannel(Targets[1]) = StepSequence)

C3_Witness ==
    /\ call.op = "decrementRegisteredParameter"
    /\ call.p1 = Str("pitchbendrange")
    /\ call.channel = Undefined
    /\ outcome = "this"
    /\ Len(sent) > 6

(***************************************************************************)
(* C4: the step message of incrementRegisteredParameter is CC96 = 0 and    *)
(* that of decrementRegisteredParameter is CC97 = 0; on each targeted      *)
(* channel a step message is sent, and every step message comes after both *)
(* select messages (what precedes the step messages is CC100 = p1, and     *)
(* what precedes that is CC101 = p0) and before both deselect messages     *)
(* (what follows the step messages is CC101 = 127, and what follows that   *)
(* is CC100 = 127).                                                        *)
(***************************************************************************)
IsStep(m) == m[1] \notin {100, 101}

\* the last position up to i, and the first from i on, of a message other
\* than m (0 and Len(on) + 1 when there is none)
RECURSIVE LastOther(_, _, _)
LastOther(on, i, m) ==
    IF i = 0 \/ on[i] # m THEN i ELSE LastOther(on, i - 1, m)

RECURSIVE FirstOther(_, _, _)
FirstOther(on, i, m) ==
    IF i > Len(on) \/ on[i] # m THEN i ELSE FirstOther(on, i + 1, m)

Bracketed(on, i) ==
    /\ on[i] = StepSequence[3]
    /\ \E b \in {LastOther(on, i, StepSequence[3])} :
          /\ b > 0
          /\ on[b] = StepSequence[2]
          /\ \E a \in {LastOther(on, b, StepSequence[2])} :
                a > 0 /\ on[a] = StepSequence[1]
    /\ \E c \in {FirstOther(on, i, StepSequence[3])} :
          /\ c <= Len(on)
          /\ on[c] = StepSequence[4]
          /\ \E d \in {FirstOther(on, c, StepSequence[4])} :
                d <= Len(on) /\ on[d] = StepSequence[5]

C4_StepBetweenSelectAndDeselect ==
    (call.op \in Steppers /\ outcome = "this")
        => \A j \in 1..Len(Targets) :
              \A on \in {OnChannel(Targets[j])} :
                  /\ \E i \in 1..Len(on) : IsStep(on[i])
                  /\ \A i \in 1..Len(on) : IsStep(on[i]) => Bracketed(on, i)

C4_Witness ==
    /\ call.op = "incrementRegisteredParameter"
    /\ outcome = "this"
    /\ Len(Targets) = 2
    /\ DistinctTargets
    /\ \E i \in 1..Len(sent) : sent[i].bytes = <<176 + 15, 96, 0>>

(***************************************************************************)
(* C5 as stated: setNonRegisteredParameter uses the NRPN controllers       *)
(* throughout: on each targeted channel it selects with CC99 = p0 then     *)
(* CC98 = p1, deselects with CC99 = 127 then CC98 = 127, and sends no      *)
(* CC101 or CC100.                                                         *)
(***************************************************************************)
C5_NrpnControllersThroughout ==
    (call.op = "setNonRegisteredParameter" /\ outcome = "this")
        => /\ \A i \in 1..Len(sent) : sent[i].bytes[2] \notin {100, 101}
           /\ \A j \in 1..Len(Targets) :
                 /\ Len(OnChannel(Targets[j])) >= 4
                 /\ SubSeq(OnChannel(Targets[j]), 1, 2)
                        = <<<<99, ParameterBytes[1]>>, <<98, ParameterBytes[2]>>>>
                 /\ SubSeq(OnChannel(Targets[j]),
                           Len(OnChannel(Targets[j])) - 1,
                           Len(OnChannel(Targets[j])))
                        = <<<<99, 127>>, <<98, 127>>>>

(***************************************************************************)
(* C6: for a parameter that is not an array and names no registered        *)
(* parameter, decrementRegisteredParameter throws a TypeError and          *)
(* incrementRegisteredParameter a generic Error, and neither hands         *)
(* anything to the transport.                                              *)
(***************************************************************************)
C6_UnknownParameterErrors ==
    (call.op \in Steppers /\ UnknownParameter)
        => /\ outcome = (IF call.op = "decrementRegisteredParameter"
                         THEN "TypeError" ELSE "Error")
           /\ handed = 0
           /\ sent = <<>>

C6_Witness ==
    /\ call.op = "incrementRegisteredParameter"
    /\ call.p1 = Num(0)
    /\ outcome = "Error"

(***************************************************************************)
(* C7 as stated: setRegisteredParameter with a name that has no entry in   *)
(* the table throws a TypeError and hands nothing to the transport.        *)
(***************************************************************************)
C7_UnknownNameTypeError ==
    (call.op = "setRegisteredParameter" /\ UnknownParameter)
        => (outcome = "TypeError" /\ handed = 0 /\ sent = <<>>)

(***************************************************************************)
(* C8 as stated: send throws a RangeError and forwards nothing whenever    *)
(* status is not an integer in 128..255 or a data byte is not an integer   *)
(* in 0..255.                                                              *)
(***************************************************************************)
SendData == IF call.p2.t = "undefined" THEN <<>> ELSE ConcatToArray(call.p2)

InvalidStatus == ~(call.p1.t = "num" /\ call.p1.n \in 128..255)

InvalidData ==
    \E i \in 1..Len(SendData) :
        ~(SendData[i].t = "num" /\ SendData[i].n \in 0..255)

C8_SendRangeError ==
    (call.op = "send" /\ (InvalidStatus \/ InvalidData))
        => (outcome = "RangeError" /\ handed = 0 /\ sent = <<>>)

(***************************************************************************)
(* C9: send(status, []) throws a TypeError, and the transport takes        *)
(* nothing, for every status of a family that needs two data bytes: note   *)
(* off (0x80), note on (0x90) and key aftertouch (0xA0).                   *)
(***************************************************************************)
C9_IncompleteMessage ==
    (call.op = "send" /\ call.p1 \in {Num(128), Num(144), Num(160)}
        /\ SendData = <<>>)
        => (outcome = "TypeError" /\ sent = <<>>)

C9_Witness ==
    /\ call.op = "send"
    /\ call.p1 = Num(160)
    /\ call.p2 = Arr(<<>>)
    /\ outcome = "TypeError"

(***************************************************************************)
(* C10: sendControlChange with a valid controller name and an integer      *)
(* value outside 0..127 throws a RangeError and hands nothing to the       *)
(* transport.                                                              *)
(***************************************************************************)
C10_ValueOutOfRange ==
    (call.op = "sendControlChange"
        /\ HasEntry(MIDI_CONTROL_CHANGE_MESSAGES, call.p1)
        /\ call.p2.t = "num" /\ call.p2.n \notin 0..127)
        => (outcome = "RangeError" /\ handed = 0 /\ sent = <<>>)

C10_Witness ==
    /\ call.op = "sendControlChange"
    /\ call.p1 = Str("brightness")
    /\ call.p2 = Num(128)
    /\ call.channel = Undefined
    /\ outcome = "RangeError"

(***************************************************************************)
(* C11: sendControlChange throws a RangeError, and hands nothing over, for *)
(* every controller number outside 0..119, the channel mode numbers 120 to *)
(* 127 among them; no message it produces has a controller in 120..127.    *)
(***************************************************************************)
C11_ControllerOutOfRange ==
    call.op = "sendControlChange"
        => /\ (call.p1.t = "num" /\ call.p1.n \notin 0..119)
                => (outcome = "RangeError" /\ handed = 0 /\ sent = <<>>)
           /\ \A i \in 1..Len(sent) : sent[i].bytes[2] \notin 120..127

C11_Witness ==
    /\ call.op = "sendControlChange"
    /\ call.p1 = Num(120)
    /\ call.p2 = Num(0)
    /\ call.channel = Num(1)
    /\ outcome = "RangeError"

(***************************************************************************)
(* C12 as stated: sendControlChange with a valid controller name and a     *)
(* value that does not convert to a number (the string "xxx", NaN) throws  *)
(* an error and sends nothing.                                             *)
(***************************************************************************)
C12_ValueNotANumber ==
    (call.op = "sendControlChange"
        /\ HasEntry(MIDI_CONTROL_CHANGE_MESSAGES, call.p1)
        /\ call.p2 \in {Str("xxx"), NaN})
        => (outcome \in Errors /\ sent = <<>>)

(***************************************************************************)
(* C13: sendPitchBend with a bend in -1..1 returns the Output and sends,   *)
(* on each targeted channel and nowhere else, a pitch bend whose bytes     *)
(* lsb, msb are in 0..127 and make the level msb * 128 + lsb, the integer  *)
(* nearest to (bend + 1) / 2 * 16383 (a half rounded up); for bend 0 the   *)
(* level is 8192: msb = 64 and lsb = 0.                                    *)
(***************************************************************************)
\* is level the integer nearest to (k / BendSteps + 1) / 2 * 16383 ?
NearestLevel(level, k) ==
    /\ 2 * BendSteps * level - BendSteps <= (k + BendSteps) * 16383
    /\ (k + BendSteps) * 16383 < 2 * BendSteps * level + BendSteps

C13_PitchBendLevel ==
    (call.op = "sendPitchBend" /\ call.p1.t = "frac"
        /\ call.p1.n \in (0 - BendSteps)..BendSteps)
        => /\ outcome = "this"
           /\ Len(sent) = Len(Targets)
           /\ \A i \in 1..Len(sent) :
                 /\ sent[i].bytes[1] = 224 + (Targets[i] - 1)
                 /\ Len(sent[i].bytes) = 3
                 /\ sent[i].bytes[2] \in 0..127
                 /\ sent[i].bytes[3] \in 0..127
                 /\ NearestLevel(sent[i].bytes[3] * 128 + sent[i].bytes[2],
                                 call.p1.n)
                 /\ call.p1.n = 0 =>
                        (sent[i].bytes[3] = 64 /\ sent[i].bytes[2] = 0)

C13_Witness ==
    /\ call.op = "sendPitchBend"
    /\ call.p1 = Frac(0)
    /\ outcome = "this"
    /\ Len(sent) = 16
    /\ sent[16].bytes = <<239, 0, 64>>

(***************************************************************************)
(* C14 as stated: setTuningProgram and setTuningBank accept every integer  *)
(* v in 1..128 and send v - 1 as the data entry value (CC6) of the tuning  *)
(* parameter on each targeted channel.                                     *)
(***************************************************************************)
TuningOps == {"setTuningProgram", "setTuningBank"}

C14_TuningOneBased ==
    (call.op \in TuningOps /\ call.p1.t = "num" /\ call.p1.n \in 1..128)
        => /\ outcome = "this"
           /\ \A j \in 1..Len(Targets) :
                 \E i \in 1..Len(sent) :
                     sent[i].bytes = <<176 + (Targets[j] - 1), 6, call.p1.n - 1>>
           /\ \A i \in 1..Len(sent) :
                 sent[i].bytes[2] = 6 => sent[i].bytes[3] = call.p1.n - 1

(***************************************************************************)
(* C15 as stated: setTuningProgram(v, 1) throws a RangeError, and sends    *)
(* nothing, for v among -1, 128, NaN, undefined, null, Infinity and        *)
(* -Infinity; setTuningProgram(64, 1) returns the Output.                  *)
(***************************************************************************)
C15_TuningProgramBounds ==
    (call.op = "setTuningProgram" /\ call.channel = Num(1))
        => /\ call.p1 \in {Num(-1), Num(128), NaN, Undefined, Null, Infinity,
                           NegInfinity}
                => (outcome = "RangeError" /\ handed = 0 /\ sent = <<>>)
           /\ call.p1 = Num(64) => outcome = "this"

(***************************************************************************)
(* C16 as stated: setSong(v) for an integer v in 1..128 sends one song     *)
(* select message, status 0xF3, whose data byte is v - 1; for any other v  *)
(* it throws a RangeError and sends nothing.                               *)
(***************************************************************************)
C16_SongOneBased ==
    call.op = "setSong"
        => IF call.p1.t = "num" /\ call.p1.n \in 1..128
           THEN /\ outcome = "this"
                /\ Len(sent) = 1
                /\ sent[1].bytes = <<243, call.p1.n - 1>>
           ELSE outcome = "RangeError" /\ handed = 0 /\ sent = <<>>

(***************************************************************************)
(* The time option.  Every operation but send resolves it with             *)
(* _convertToTimestamp; the clock does not move during a call, so time is  *)
(* the clock the call read.                                                *)
(***************************************************************************)
TimedCall == call.op \notin {"none", "send"}

\* the message goes out at the time of the call's time option: every message
\* but the note offs playNote schedules a duration later
AtCallTime(m) ==
    ~(call.op = "playNote"
        /\ m.bytes[1] \div 16 = MIDI_CHANNEL_VOICE_MESSAGES.noteoff)

\* the time option is a string that starts with "+"
IsDelay == call.t.t = "str" /\ call.t.c # <<>> /\ Head(call.t.c) = "+"

\* the number after the "+", or NaN
Delay == ParseChars(Tail(call.t.c))

(***************************************************************************)
(* C17 as stated: a time option that is a number t >= the current time     *)
(* resolves to t, t equal to the current time included: every message of   *)
(* the call is handed over with timestamp t.                               *)
(***************************************************************************)
C17_NumberNotBeforeNow ==
    (TimedCall /\ call.t.t = "num" /\ call.t.n >= time)
        => \A i \in 1..Len(sent) : AtCallTime(sent[i]) => sent[i].ts = call.t.n

(***************************************************************************)
(* C18: a time option "+n" with n a positive number resolves to the        *)
(* current time + n, and every message of the call is handed to the        *)
(* transport with exactly that timestamp.                                  *)
(***************************************************************************)
C18_PositiveDelay ==
    (TimedCall /\ IsDelay /\ Delay.t = "num" /\ Delay.n > 0)
        => \A i \in 1..Len(sent) :
              AtCallTime(sent[i]) => sent[i].ts = time + Delay.n

C18_Witness ==
    /\ call.op = "sendControlChange"
    /\ call.t = Plus(<<"5">>)
    /\ time = 2
    /\ Len(sent) = 16
    /\ sent[16].ts = 7

(***************************************************************************)
(* C19: a time option that is absent, zero, a time in the past, a delay    *)
(* that is not a positive number ("+0", "+-5", "+abc") or a string that is *)
(* not a number ("abc") makes every message of the call go to the          *)
(* transport with timestamp 0; and no time option makes a call throw: a    *)
(* sendControlChange with a valid controller and value returns the Output  *)
(* whatever its time option.                                               *)
(***************************************************************************)
Immediate ==
    \/ call.t.t = "undefined"
    \/ call.t.t = "num" /\ (call.t.n = 0 \/ call.t.n < time)
    \/ IsDelay /\ ~(Delay.t = "num" /\ Delay.n > 0)
    \/ call.t.t = "str" /\ ~IsDelay /\ ParseChars(call.t.c).t = "nan"

IsDataByte(v) == v.t = "num" /\ v.n \in 0..127

Manufacturer == ConcatToArray(call.p1)

ValidSysex ==
    /\ Len(Manufacturer) = (IF IsArray(call.p1) THEN 3 ELSE 1)
    /\ \A i \in 1..Len(Manufacturer) : IsDataByte(Manufacturer[i])
    /\ IsArray(call.p2)
    /\ \A i \in 1..Len(call.p2.a) : IsDataByte(call.p2.a[i])

SysexMessage ==
    <<240>> \o [i \in 1..Len(Manufacturer) |-> Manufacturer[i].n]
        \o [i \in 1..Len(call.p2.a) |-> call.p2.a[i].n] \o <<247>>

C20_SysexFraming ==
    (call.op = "sendSysex" /\ ValidSysex)
        => /\ handed = 1
           /\ IF sysex
              THEN /\ outcome = "this"
                   /\ Len(sent) = 1
                   /\ sent[1].bytes = SysexMessage
                   /\ \A i \in 1..Len(sent[1].bytes) :
                         sent[1].bytes[i] = 247 <=> i = Len(sent[1].bytes)
              ELSE outcome = "InvalidAccessError" /\ sent = <<>>

C20_Witness ==
    /\ call.op = "sendSysex"
    /\ sysex
    /\ outcome = "this"
    /\ Len(sent) = 1
    /\ sent[1].bytes = <<240, 0, 33, 9, 127, 1, 127, 247>>

(***************************************************************************)
(* C21: every chainable operation of the Output that runs to its end      *)
(* without throwing gives back the Output it was called on: send,         *)
(* sendSysex, clear, the system message helpers, the channel operations   *)
(* and the deprecated names alike.                                        *)
(***************************************************************************)
Thrown == Errors \cup {"InvalidAccessError"}

SingleMessageOps == {"sendControlChange", "sendPitchBend"}

\* the channel argument is an array of distinct channels, all valid
DistinctValidArray ==
    /\ IsArray(call.channel)
    /\ Len(Targets) = Len(call.channel.a)
    /\ DistinctTargets

\* the length of the sequence one channel is due: select (2), set (the data
\* bytes) or step (1), deselect (2)
PerChannelLength ==
    IF call.op \in {"setRegisteredParameter", "setNonRegisteredParameter"}
    THEN 4 + Len(DataList) ELSE 5

C22_OncePerChannel ==
    (/\ pc = "returned"
     /\ outcome = "this"
     /\ call.op \in SingleMessageOps \cup ParameterOps
     /\ DistinctValidArray)
        => /\ \A i \in 1..Len(sent) :
                \E j \in 1..Len(Targets) : sent[i].bytes[1] % 16 = Targets[j] - 1
           /\ call.op \in SingleMessageOps => Len(sent) = Len(Targets)
           /\ call.op \in ParameterOps
                => Len(sent) = Len(Targets) * PerChannelLength

(***************************************************************************)
(* C23: playNote with a duration d (a number, not negative) hands over,   *)
(* for every note on (each note on each targeted channel), exactly one    *)
(* note off with the same note number on the same channel, scheduled at   *)
(* the time the note on was resolved to (the current time when it is sent *)
(* immediately) plus d; every note on of the call is sent before any of   *)
(* its note offs; without a duration no note off is sent.                 *)
(***************************************************************************)
PlayedNotes == convertToNoteArray(call.p1)

\* the number of note ons a call that does not throw is due
NoteOns == Len(PlayedNotes) * Len(Targets)

IsNoteOn(m) == m.bytes[1] \div 16 = MIDI_CHANNEL_VOICE_MESSAGES.noteon

IsNoteOff(m) == m.bytes[1] \div 16 = MIDI_CHANNEL_VOICE_MESSAGES.noteoff

\* the note off m ends the note on p after d milliseconds
EndsAfter(m, p, d) ==
    /\ IsNoteOn(p)
    /\ IsNoteOff(m)
    /\ m.bytes[2] = p.bytes[2]
    /\ m.bytes[1] % 16 = p.bytes[1] % 16
    /\ m.ts = (IF p.ts # 0 THEN p.ts ELSE time) + d

C23_NoteOffAfterDuration ==
    (pc = "returned" /\ call.op = "playNote" /\ outcome = "this")
        => /\ (call.p2.duration.t = "num" /\ call.p2.duration.n >= 0)
                => /\ Len(sent) = 2 * NoteOns
                   /\ \A i \in 1..NoteOns :
                        EndsAfter(sent[NoteOns + i], sent[i], call.p2.duration.n)
           /\ call.p2.duration.t \in {"undefined", "nan"}
                => /\ Len(sent) = NoteOns
                   /\ \A i \in 1..Len(sent) : IsNoteOn(sent[i])

\* two notes on two channels, delayed, with a duration, at a time past 0
C23_Witness ==
    /\ pc = "returned"
    /\ call.op = "playNote"
    /\ outcome = "this"
    /\ time > 0
    /\ call.p2.duration = Num(3)
    /\ Len(PlayedNotes) = 2
    /\ Len(Targets) = 2
    /\ Len(sent) = 8
    /\ sent[1].ts = time + 5
    /\ sent[8].ts = time + 8

(***************************************************************************)
(* C24: playNote throws, and hands no note on to the transport, when any   *)
(* note it is given is invalid: a name that cannot be parsed ("Z-8",      *)
(* "R22"), a number outside 0..127 (-1, 128), undefined, null, a function, *)
(* or an array that holds such an element next to valid ones; playNote(64) *)
(* succeeds and sends note ons with note number 64.                       *)
(***************************************************************************)
InvalidNotes ==
    {Num(-1), Num(128), Undefined, Null, Obj, Chars(<<"Z", "-", "8">>),
     Chars(<<"R", "2", "2">>), Chars(<<"x">>), Chars(<<"G", "#", "9">>)}

SuppliedNotes == ConcatToArray(call.p1)

C24_InvalidNoteThrows ==
    (pc = "returned" /\ call.op = "playNote")
        => /\ (\E i \in 1..Len(SuppliedNotes) : SuppliedNotes[i] \in InvalidNotes)
                => (outcome \in Errors /\ handed = 0 /\ sent = <<>>)
           /\ call.p1 = Num(64)
                => /\ outcome = "this"
                   /\ Len(sent) >= Len(Targets)
                   /\ \A i \in 1..Len(Targets) :
                        /\ IsNoteOn(sent[i])
                        /\ sent[i].bytes[2] = 64
                        /\ sent[i].bytes[1] % 16 = Targets[i] - 1

\* an array with a valid note before an invalid one was refused whole
C24_Witness ==
    /\ pc = "returned"
    /\ call.op = "playNote"
    /\ call.p1 = Arr(<<Num(64), Chars(<<"Z", "-", "8">>)>>)
    /\ Len(Targets) = 2
    /\ outcome = "Error"
    /\ handed = 0

(***************************************************************************)
(* C25: destroying an Output again is safe: a destroy() called on an      *)
(* Output whose earlier destroy() has been resolved neither throws nor     *)
(* rejects.                                                                *)
(***************************************************************************)
C25_DestroyAgainSafe ==
    \A i \in 1..Len(tasks) :
        (tasks[i].op = "destroy" /\ tasks[i].again) => tasks[i].state # "rejected"

(***************************************************************************)
(* C26 as stated: an Output owns its 16 channels, numbered 1 to 16, from   *)
(* construction until destroy() is called; once a destroy() has been       *)
(* resolved every one of them has been destroyed, the channel list is      *)
(* empty, the Output has no listeners, the statechange handler is off the  *)
(* transport and the reference to the transport is null.                   *)
(***************************************************************************)
DestroyCalled == \E i \in 1..Len(tasks) : tasks[i].op = "destroy"

C26_DestroyedState ==
    /\ ~DestroyCalled => (channels = 1..NumChannels /\ destroyed = {})
    /\ Destroyed
        => /\ destroyed = 1..NumChannels
           /\ channels = {}
           /\ listeners = {}
           /\ onstatechange = "null"
           /\ midiOutput = "null"

(***************************************************************************)
(* C26 as amended: the same, except that the listeners gone once a        *)
(* destroy() has been resolved are those registered before that destroy()  *)
(* was called; a listener registered later, while the close was pending,  *)
(* stays.                                                                  *)
(***************************************************************************)
C26_DestroyedStateOfCall ==
    /\ ~DestroyCalled => (channels = 1..NumChannels /\ destroyed = {})
    /\ \A i \in 1..Len(tasks) :
        (tasks[i].op = "destroy" /\ tasks[i].state = "resolved")
            => /\ destroyed = 1..NumChannels
               /\ channels = {}
               /\ \A l \in listeners : l.since >= i
               /\ onstatechange = "null"
               /\ midiOutput = "null"

\* a destroy() was resolved after the host had closed the port, and a listener
\* registered while the close was pending is still there
C26_Witness ==
    /\ Len(tasks) >= 1
    /\ tasks[1].op = "destroy"
    /\ tasks[1].state = "resolved"
    /\ tasks[1].host = "ok"
    /\ midiOutput = "null"
    /\ destroyed = 1..NumChannels
    /\ \E l \in listeners : l.since = 1

(***************************************************************************)
(* C27: open() resolves with the Output itself when the host's open        *)
(* succeeds and rejects with the host's error, unchanged, when the host's  *)
(* open fails; an open that failed is never resolved.                      *)
(***************************************************************************)
C27_OpenSettles ==
    \A i \in 1..Len(tasks) :
        (tasks[i].op = "open" /\ tasks[i].host # "none")
            => /\ tasks[i].host = "pending" => tasks[i].state = "pending"
               /\ tasks[i].host = "ok"
                    => (tasks[i].state = "resolved" /\ tasks[i].value = "this")
               /\ tasks[i].host \in HostErrors
                    => (tasks[i].state = "rejected" /\ tasks[i].value = tasks[i].host)

\* one open() was resolved with the Output and another rejected with the
\* error of the host
C27_Witness ==
    \E i, j \in 1..Len(tasks) :
        /\ tasks[i].op = "open" /\ tasks[i].state = "resolved"
        /\ tasks[i].value = "this"
        /\ tasks[j].op = "open" /\ tasks[j].state = "rejected"
        /\ tasks[j].value = "InvalidStateError"

(***************************************************************************)
(* C28: setMasterTuning accepts every decimal value with -65 < value < 64: *)
(* it does not throw for any of them, and the coarse tuning byte it sends, *)
(* floor(value) + 64, lies in 0..127; a value <= -65 or >= 64 makes it     *)
(* throw a RangeError.                                                     *)
(***************************************************************************)
\* the value argument in steps of 1 / BendSteps
TuningSteps == IF call.p1.t = "frac" THEN call.p1.n ELSE call.p1.n * BendSteps

C28_MasterTuningAccepted ==
    (/\ pc = "returned"
     /\ call.op = "setMasterTuning"
     /\ call.p1.t \in {"frac", "num"})
        => IF TuningSteps > (0 - 65) * BendSteps /\ TuningSteps < 64 * BendSteps
           THEN /\ outcome = "this"
                /\ \A i \in 1..Len(sent) :
                     sent[i].bytes[2] = MIDI_CONTROL_CHANGE_MESSAGES.dataentrycoarse
                        => sent[i].bytes[3] \in 0..127
           ELSE outcome = "RangeError"

(***************************************************************************)
(* C29: the decoder never dispatches a control change with a controller    *)
(* from 120 to 127 as a plain "controlchange" event: each such message     *)
(* gives a "channelmode" event (controller number = data1, value = data2)  *)
(* and the event of its mode (120 allsoundoff, 121 resetallcontrollers,    *)
(* 122 localcontrol, 123 allnotesoff, 124 and 125 omnimode, 126 and 127    *)
(* monomode); the controllers 0 to 119 give "controlchange".               *)
(***************************************************************************)
IsControlChange(data) == data[1] \div 16 = MIDI_CHANNEL_VOICE_MESSAGES.controlchange

ModeEventNames ==
    [n \in 120..127 |->
        <<"allsoundoff", "resetallcontrollers", "localcontrol", "allnotesoff",
          "omnimode", "omnimode", "monomode", "monomode">>[n - 119]]

\* an event of the given type was dispatched for the message
Dispatched(type, data) ==
    \E i \in 1..Len(events) :
        /\ events[i].type = type
        /\ events[i].data = data
        /\ events[i].channel = (data[1] % 16) + 1
        /\ type \in {"controlchange", "channelmode"}
              => (events[i].number = data[2] /\ events[i].value = data[3])

C29_ChannelModeReclassified ==
    /\ \A i \in 1..Len(events) :
        events[i].type = "controlchange" => events[i].data[2] \in 0..119
    /\ \A k \in 1..Len(received) :
        IsControlChange(received[k])
            => IF received[k][2] \in 120..127
               THEN /\ Dispatched("channelmode", received[k])
                    /\ Dispatched(ModeEventNames[received[k][2]], received[k])
               ELSE Dispatched("controlchange", received[k])

\* all sound off (controller 120) and a plain control change both came in
C29_Witness ==
    /\ Len(received) = 2
    /\ received[1] = <<176, 120, 0>>
    /\ received[2][2] = 119
    /\ IsControlChange(received[2])
    /\ Dispatched("allsoundoff", received[1])
    /\ Dispatched("controlchange", received[2])

(***************************************************************************)
(* C30: controller 126 is reported as "monomode" with value true and 127   *)
(* as "monomode" with value false, 124 as "omnimode" false and 125 as      *)
(* "omnimode" true, 122 as "localcontrol" with the value data2 # 0; and    *)
(* [0xB0, 126, 0] followed by [0xB0, 127, 0] gives the two monomode events *)
(* in that order, true before false.                                       *)
(***************************************************************************)
\* the values of the events of one type, in the order dispatched
FlagsOf(type) ==
    LET IsType(e) == e.type = type
        of == SelectSeq(events, IsType)
    IN  [i \in 1..Len(of) |-> of[i].flag]

C30_ModePolarityAndOrder ==
    /\ \A i \in 1..Len(events) :
        /\ events[i].type = "monomode"
              => /\ events[i].data[2] \in {126, 127}
                 /\ events[i].flag = (IF events[i].data[2] = 126 THEN "true"
                                      ELSE "false")
        /\ events[i].type = "omnimode"
              => /\ events[i].data[2] \in {124, 125}
                 /\ events[i].flag = (IF events[i].data[2] = 125 THEN "true"
                                      ELSE "false")
        /\ events[i].type = "localcontrol"
              => /\ events[i].data[2] = 122
                 /\ events[i].flag = (IF events[i].data[3] # 0 THEN "true"
                                      ELSE "false")
    /\ \A k \in 1..Len(received) :
        /\ (IsControlChange(received[k]) /\ received[k][2] \in {126, 127})
              => Dispatched("monomode", received[k])
        /\ (IsControlChange(received[k]) /\ received[k][2] \in {124, 125})
              => Dispatched("omnimode", received[k])
        /\ (IsControlChange(received[k]) /\ received[k][2] = 122)
              => Dispatched("localcontrol", received[k])
    /\ received = <<(<<176, 126, 0>>), (<<176, 127, 0>>)>>
          => FlagsOf("monomode") = <<"true", "false">>

\* mono mode on, then mono mode off, came in and were reported in that order
C30_Witness ==
    /\ received = <<(<<176, 126, 0>>), (<<176, 127, 0>>)>>
    /\ FlagsOf("monomode") = <<"true", "false">>

(***************************************************************************)
(* C31: for any sequence of inbound channel messages exactly one           *)
(* "midimessage" event is dispatched per message, with the bytes of that   *)
(* message unchanged, in the order the messages arrived; and the events of *)
(* one message are all dispatched before the first event of the next: the  *)
(* events are the blocks of the messages, one after the other.             *)
(***************************************************************************)
\* the events split into one block per message, in order: every event of a
\* block carries the bytes of its message and exactly one of them is the
\* "midimessage" (seen: the block being read has had its "midimessage")
RECURSIVE InBlocks(_, _, _)
InBlocks(evs, msgs, seen) ==
    IF evs = <<>> THEN msgs = <<>> \/ (Len(msgs) = 1 /\ seen)
    ELSE IF msgs = <<>> THEN FALSE
    ELSE IF /\ Head(evs).data = Head(msgs)
            /\ Head(evs).channel = (Head(msgs)[1] % 16) + 1
            /\ ~(Head(evs).type = "midimessage" /\ seen)
         THEN InBlocks(Tail(evs), msgs, seen \/ Head(evs).type = "midimessage")
         ELSE seen /\ InBlocks(evs, Tail(msgs), FALSE)

\* the bytes of the "midimessage" events, in the order dispatched
MidiMessages ==
    LET IsMidiMessage(e) == e.type = "midimessage"
        IN  [i \in 1..Len(SelectSeq(events, IsMidiMessage)) |->
                SelectSeq(events, IsMidiMessage)[i].data]

C31_OneMidiMessageInOrder ==
    /\ MidiMessages = received
    /\ InBlocks(events, received, FALSE)

\* two different messages came in, the first with two typed events
C31_Witness ==
    /\ received = <<(<<176, 120, 0>>), (<<144, 48, 87>>)>>
    /\ Len(events) = 5
    /\ MidiMessages = received
    /\ events[4].type = "midimessage"
    /\ events[5].type = "noteon"

(***************************************************************************)
(* C32: destroy() on an input channel sets its number and its input        *)
(* reference to null and removes all of its listeners: right after it      *)
(* hasListener() is false, for every event and without an event, whatever  *)
(* listeners had been added before.                                        *)
(***************************************************************************)
C32_InputChannelDestroyed ==
    inputChannel.op = "destroy"
        => /\ inputChannel.number = Null
           /\ inputChannel.input = "null"
           /\ \A e \in InputChannelEvents \cup {"undefined"} : ~hasListener(e)

\* destroy() was called on a channel with two listeners of different events
C32_Witness ==
    /\ inputChannel.op = "destroy"
    /\ Cardinality(inputChannel.removed) = 2
    /\ \E l \in inputChannel.removed : l.event = "test"
    /\ \E l \in inputChannel.removed : l.event = "midimessage"
    /\ ~hasListener("undefined")

(***************************************************************************)
(* C33: every message a helper of the Output (any operation but the raw    *)
(* send; the payload of a sysex aside) hands to the transport has a status *)
(* byte in 128..255 and every data byte in 0..127, for every argument the  *)
(* helper accepts: the transport, which refuses any other message, takes   *)
(* every message handed to it.                                             *)
(***************************************************************************)
Helper == call.op \notin {"none", "send", "sendSysex"}

\* the bytes of a message the transport took: a status and data bytes
StatusAndData(m) ==
    /\ m.bytes[1] \in 128..255
    /\ \A j \in 2..Len(m.bytes) : m.bytes[j] \in 0..127

C33_HelperBytesInRange ==
    Helper => /\ handed = Len(sent)
              /\ \A i \in 1..Len(sent) : StatusAndData(sent[i])

(***************************************************************************)
(* C34: sendChannelMode with a command from 120 to 127 (or its name) and a *)
(* value from 0 to 127 returns the Output having handed over, for each     *)
(* targeted channel in order, the message <<0xB0 + (channel - 1), command, *)
(* value>>: a control change status, never one of the system messages      *)
(* 0xF0 to 0xFF.                                                           *)
(***************************************************************************)
\* the command argument as a number from 120 to 127
ChannelModeCommand ==
    IF call.p1.t = "str" THEN MIDI_CHANNEL_MODE_MESSAGES[call.p1.s] ELSE call.p1.n

ValidChannelMode ==
    /\ call.op = "sendChannelMode"
    /\ HasEntry(MIDI_CHANNEL_MODE_MESSAGES, call.p1)
          \/ (call.p1.t = "num" /\ call.p1.n \in 120..127)
    /\ call.p2.t = "undefined" \/ (call.p2.t = "num" /\ call.p2.n \in 0..127)

C34_ChannelModeStatus ==
    /\ ValidChannelMode
          => /\ outcome = "this"
             /\ handed = Len(Targets)
             /\ Len(sent) = Len(Targets)
             /\ \A i \in 1..Len(sent) :
                  sent[i].bytes = <<176 + (Targets[i] - 1), ChannelModeCommand,
                                    IF call.p2.t = "num" THEN call.p2.n ELSE 0>>
    /\ call.op = "sendChannelMode"
          => \A i \in 1..Len(sent) : sent[i].bytes[1] \notin 240..255

(***************************************************************************)
(* C35: after a setRegisteredParameter, setNonRegisteredParameter,         *)
(* incrementRegisteredParameter or decrementRegisteredParameter call that  *)
(* returns normally, a receiver that follows the parameter selection in    *)
(* the control changes it is sent (CC101/CC100 for a registered, CC99/CC98 *)
(* for a non-registered parameter) has the null parameter, MSB = LSB =     *)
(* 127, selected on every channel: on each channel that got a selection    *)
(* message the last MSB selection is CC101 = 127 and the last LSB          *)
(* selection is CC100 = 127.  Every call starting from the null selection  *)
(* and ending in it, so does any sequence of such calls.                   *)
(***************************************************************************)
\* the selection messages handed over on channel ch, in order
Selections(ch) ==
    LET IsSelection(m) == m[1] \in {98, 99, 100, 101}
    IN  SelectSeq(OnChannel(ch), IsSelection)

\* the last message of s with one of the controllers, <<>> when it has none
LastOf(s, controllers) ==
    LET IsOne(m) == m[1] \in controllers
        last(of) == IF of = <<>> THEN <<>> ELSE of[Len(of)]
    IN  last(SelectSeq(s, IsOne))

NullSelected(ch) ==
    LET null(s) ==
            \/ s = <<>>
            \/ /\ LastOf(s, {99, 101}) = <<101, 127>>
               /\ LastOf(s, {98, 100}) = <<100, 127>>
    IN  null(Selections(ch))

\* the messages of a call carry one timestamp, so the transport delivers them
\* together and in the order handed over
C35_NullParameterSelected ==
    (call.op \in ParameterOps /\ outcome = "this")
        => /\ \A ch \in 1..NumChannels : NullSelected(ch)
           /\ \A i \in 1..Len(sent) : sent[i].ts = sent[1].ts

\* a non-registered parameter was set on two channels and deselected on both
C35_Witness ==
    /\ call.op = "setNonRegisteredParameter"
    /\ outcome = "this"
    /\ Targets = <<1, 16>>
    /\ \A ch \in {1, 16} :
        /\ \E i \in 1..Len(Selections(ch)) : Selections(ch)[i][1] = 99
        /\ NullSelected(ch)

(***************************************************************************)
(* C36: for every 14-bit level L from 0 to 16383 the two data bytes the    *)
(* pitch bend encoder sends, the least significant 7 bits in data1 and the *)
(* most significant in data2, decode by the decoder's rule (data2 << 7) |  *)
(* data1 to exactly L.                                                     *)
(***************************************************************************)
C36_PitchBendRoundTrip ==
    /\ call.op = "pitchBendLevel"
          => /\ outcome = "this"
             /\ Len(sent) = 1
             /\ sent[1].bytes[2] = call.p1.n % 128
             /\ sent[1].bytes[3] = call.p1.n \div 128
    /\ (call.op = "pitchBendLevel" /\ received # <<>>)
          => /\ received = <<sent[1].bytes>>
             /\ \E i \in 1..Len(events) :
                  /\ events[i].type = "pitchbend"
                  /\ events[i].channel = call.channel.n
                  /\ events[i].data = sent[1].bytes
                  /\ events[i].value = call.p1.n
             /\ \A i \in 1..Len(events) :
                  events[i].type = "pitchbend" => events[i].value = call.p1.n

\* a level whose two bytes differ came back as it went out
C36_Witness ==
    /\ call.op = "pitchBendLevel"
    /\ call.p1.n = 11398
    /\ received = <<(<<224, 6, 89>>)>>
    /\ \E i \in 1..Len(events) :
        events[i].type = "pitchbend" /\ events[i].value = 11398

(***************************************************************************)
(* C38: each statechange notification of the transport makes the Output    *)
(* emit at most one event, chosen by the connection and the state of the   *)
(* port alone: "opened", with the Output as target, for the connection     *)
(* "open"; "closed", with the Output as target, for a port closed and      *)
(* connected; "disconnected", with a description of the port and not the   *)
(* Output as target, for a port closed and disconnected; nothing for a     *)
(* port pending and disconnected or any other combination.  And no         *)
(* statechange alters the channels of the Output or its transport          *)
(* reference.                                                              *)
(***************************************************************************)
\* the event the claim gives for a connection and a state, "none" for none
EventOfPort(connection, state) ==
    IF connection = "open" THEN "opened"
    ELSE IF connection = "closed" /\ state = "connected" THEN "closed"
    ELSE IF connection = "closed" /\ state = "disconnected" THEN "disconnected"
    ELSE "none"

OneEventByPortState ==
    (notified.connection # "none" /\ notified.handled)
        => /\ Len(notified.emitted) <= 1
           /\ IF EventOfPort(notified.connection, notified.state) = "none"
              THEN notified.emitted = <<>>
              ELSE /\ Len(notified.emitted) = 1
                   /\ notified.emitted[1].type
                        = EventOfPort(notified.connection, notified.state)
                   /\ notified.emitted[1].target
                        = (IF notified.emitted[1].type = "disconnected"
                           THEN "descriptor" ELSE "this")
           /\ \A l \in notified.to :
                \E i \in 1..Len(notified.emitted) :
                    notified.emitted[i].type = l.event

StateChangeKeepsOutput ==
    (StateChangeOfCall \/ StateChangeOfDevice)
        => UNCHANGED <<channels, destroyed, midiOutput, onstatechange, listeners>>

C38_StateChangeEvents == []OneEventByPortState /\ [][StateChangeKeepsOutput]_vars

\* the device was unplugged and a listener of "disconnected" got the event,
\* whose target is the description of the port
C38_Witness ==
    /\ notified.connection = "closed"
    /\ notified.state = "disconnected"
    /\ notified.handled
    /\ notified.emitted = <<[type |-> "disconnected", target |-> "descriptor"]>>
    /\ \E l \in notified.to : l.event = "disconnected"
    /\ channels = 1..NumChannels
    /\ midiOutput = "port"

C39_NoSendAfterDestroy ==
    (call.op \in ChannelOperations /\ pc = "returned" /\ call.after)
        => /\ handed = 0
           /\ sent = <<>>
           /\ outcome = (IF Targets = <<>> THEN "this" ELSE "TypeError")

\* a control change was asked for on channel 1 while the close of destroy()
\* was pending: it failed and sent nothing
C39_Witness ==
    /\ call.op = "sendControlChange"
    /\ pc = "returned"
    /\ call.after
    /\ call.channel = Num(1)
    /\ outcome = "TypeError"
    /\ sent = <<>>
    /\ \E i \in 1..Len(tasks) : tasks[i].op = "destroy" /\ tasks[i].state = "pending"

====
